---- MODULE Spec2Model ----
(***************************************************************************)
(* Model of the retrieval core of Academy_of_knowledge_AI_VKbot:           *)
(*   src/src/ai/rag_handler.py   (RAGHandler: JSON knowledge trees)        *)
(*   src/src/ai/rag_singleton.py (RAGSingleton: DOCX documents)            *)
(*   src/main.py                 (initialize_rag)                          *)
(*                                                                         *)
(* Strings.  A text (question, answer, query, paragraph) is a sequence of  *)
(* words; the words of the source string are separated by single spaces.   *)
(* A context string is a sequence of atoms, an atom being either one       *)
(* blank " " or a maximal run of non-blank characters, so that str.strip() *)
(* is modelled by what it removes.  Russian words are written in Latin    *)
(* transliteration: ot, do, let, starshe, mladshe, vopros, otvet.          *)
(***************************************************************************)
EXTENDS Integers, Sequences, FiniteSets, TLC

VARIABLES
    age,              \* extract_age_info: [text, result, done]
    flat,             \* _flatten_knowledge: [data, documents, done]
    knowledge_base,   \* RAGSingleton.knowledge_base["documents"]
    embeddings_cache, \* RAGSingleton.embeddings_cache: "documents" key and its entries
    s_result,         \* outcome of the last RAGSingleton call
    h_state,          \* RAGHandler instance: [constructed, knowledge_base, embeddings_cache, encoded]
    h_result,         \* outcome of the last RAGHandler call
    encoded,          \* the texts RAGSingleton's last index build gave to the encoder, in order
    calc,             \* a computation on drawn inputs: [op, input, output, done]
    refused,          \* the texts on which the encoder raised during the last index build
    states,           \* ConversationManager.states as the dict stores it: entries in insertion order
    threads,          \* the event threads of VkBot: each one's position inside get_state and its locals
    df_events,        \* ExcelHandler.df_events: event id -> [max_participants, current_participants]
    df_registrations, \* ExcelHandler.df_registrations: rows [user_vk_id, event_id, status]
    conversation,     \* the ConversationState of the user who writes to the MessageHandler
    df_consultations, \* ExcelHandler.df_consultations: the saved consultation records
    reply             \* what the last process_message call did

rag_vars == <<age, flat, knowledge_base, embeddings_cache, s_result, h_state, h_result, encoded, calc, refused>>

bot_vars == <<states, threads, df_events, df_registrations, conversation, df_consultations, reply>>

vars == <<rag_vars, bot_vars>>

\* the bot's objects before any of them is constructed
BotIdle ==
    /\ states = <<>>
    /\ threads = <<>>
    /\ df_events = <<>>
    /\ df_registrations = <<>>
    /\ conversation = <<>>
    /\ df_consultations = <<>>
    /\ reply = <<>>

(***************************************************************************)
(* Bounds of the model.                                                    *)
(***************************************************************************)
MaxPhrases == 3       \* phrases concatenated into a text given to extract_age_info
MaxDepth == 3         \* nesting depth of a knowledge tree

\* Python's None for min_age / max_age (the regex \d+ yields no negative number).
None == -1

(***************************************************************************)
(* extract_age_info, rag_handler.py:68-103                                 *)
(***************************************************************************)
\* the digit strings of the model's texts
NumTok == {"0", "5"}

\* \d+ on a word
IsNum(tok) == tok \in NumTok

\* int(match.group(k))
IntOf(tok) == CASE tok = "0" -> 0 [] tok = "5" -> 5 [] tok = "7" -> 7 [] OTHER -> None

\* str.lower() on a word, and on a text
LowerWord(tok) == IF tok = "Starshe" THEN "starshe" ELSE IF tok = "Mladshe" THEN "mladshe" ELSE tok
Lower(text) == [i \in 1..Len(text) |-> LowerWord(text[i])]

\* 'word' in text.lower()
Contains(text, word) == \E i \in 1..Len(text) : text[i] = word

\* (?:\s*-\s*|\s+do\s+)
IsRangeSep(tok) == tok \in {"-", "do"}

\* r'ot (\d+)(?:\s*-\s*|\s+do\s+)(\d+)\s*let' matches at word i
MatchOtRange(t, i) ==
    /\ i + 4 <= Len(t)
    /\ t[i] = "ot" /\ IsNum(t[i+1]) /\ IsRangeSep(t[i+2]) /\ IsNum(t[i+3]) /\ t[i+4] = "let"

\* r'(\d+)(?:\s*-\s*|\s+do\s+)(\d+)\s*let' matches at word i
MatchRange(t, i) ==
    /\ i + 3 <= Len(t)
    /\ IsNum(t[i]) /\ IsRangeSep(t[i+1]) /\ IsNum(t[i+2]) /\ t[i+3] = "let"

\* r'starshe (\d+)\s*let' matches at word i
MatchOlder(t, i) ==
    /\ i + 2 <= Len(t)
    /\ t[i] = "starshe" /\ IsNum(t[i+1]) /\ t[i+2] = "let"

\* r'mladshe (\d+)\s*let' matches at word i
MatchYounger(t, i) ==
    /\ i + 2 <= Len(t)
    /\ t[i] = "mladshe" /\ IsNum(t[i+1]) /\ t[i+2] = "let"

\* r'(\d+)\s*let' matches at word i
MatchBare(t, i) ==
    /\ i + 1 <= Len(t)
    /\ IsNum(t[i]) /\ t[i+1] = "let"

\* the positions at which re.finditer(pattern, text.lower()) finds a match
Matches(pattern, t) ==
    {i \in 1..Len(t) :
        CASE pattern = 1 -> MatchOtRange(t, i)
          [] pattern = 2 -> MatchRange(t, i)
          [] pattern = 3 -> MatchOlder(t, i)
          [] pattern = 4 -> MatchYounger(t, i)
          [] pattern = 5 -> MatchBare(t, i)}

\* the first match re.finditer yields: the leftmost position, 0 when there is none
FirstMatch(pattern, t) ==
    IF Matches(pattern, t) = {} THEN 0
    ELSE CHOOSE i \in Matches(pattern, t) : \A j \in Matches(pattern, t) : i <= j

NoAgeInfo == [min_age |-> None, max_age |-> None, has_age_info |-> FALSE]

\* the branch taken for a pattern with two groups (lines 89-91)
TwoGroups(g1, g2) ==
    [min_age |-> IntOf(g1), max_age |-> IntOf(g2), has_age_info |-> TRUE]

\* the branches taken for a pattern with one group (lines 92-99): the branch is
\* chosen by the words of the whole text, not by the pattern that matched
OneGroup(t, g) ==
    IF Contains(t, "starshe")
    THEN [min_age |-> IntOf(g), max_age |-> None, has_age_info |-> TRUE]
    ELSE IF Contains(t, "mladshe")
    THEN [min_age |-> None, max_age |-> IntOf(g), has_age_info |-> TRUE]
    ELSE [min_age |-> IntOf(g), max_age |-> IntOf(g), has_age_info |-> TRUE]

\* mutant: the un-prefixed range pattern is tried before the 'ot' pattern
extract_age_info_range_first(text) ==
    LET t == Lower(text)
        i2 == FirstMatch(2, t)
        i3 == FirstMatch(3, t)
        i4 == FirstMatch(4, t)
        i5 == FirstMatch(5, t)
    IN  IF i2 # 0 THEN TwoGroups(t[i2], t[i2+2])
        ELSE IF i3 # 0 THEN OneGroup(t, t[i3+1])
        ELSE IF i4 # 0 THEN OneGroup(t, t[i4+1])
        ELSE IF i5 # 0 THEN OneGroup(t, t[i5])
        ELSE NoAgeInfo

extract_age_info(text) ==
    LET t == Lower(text)
        i1 == FirstMatch(1, t)
        i2 == FirstMatch(2, t)
        i3 == FirstMatch(3, t)
        i4 == FirstMatch(4, t)
        i5 == FirstMatch(5, t)
    IN  IF i1 # 0 THEN TwoGroups(t[i1+1], t[i1+3])
        ELSE IF i2 # 0 THEN TwoGroups(t[i2], t[i2+2])
        ELSE IF i3 # 0 THEN OneGroup(t, t[i3+1])
        ELSE IF i4 # 0 THEN OneGroup(t, t[i4+1])
        ELSE IF i5 # 0 THEN OneGroup(t, t[i5])
        ELSE NoAgeInfo

(***************************************************************************)
(* Texts given to extract_age_info: up to MaxPhrases phrases in a row.     *)
(***************************************************************************)
Phrases ==
    {<<"ot", "0", "do", "5", "let">>, <<"ot", "5", "do", "5", "let">>}
    \cup {<<"0", "-", "0", "let">>, <<"5", "-", "0", "let">>}
    \cup {<<"starshe", x, "let">> : x \in NumTok}
    \cup {<<"mladshe", x, "let">> : x \in NumTok}
    \cup {<<x, "let">> : x \in NumTok}
    \cup {<<"starshe">>, <<"Mladshe">>, <<"ot">>, <<"i">>}

RECURSIVE TextsOf(_)
TextsOf(n) ==
    IF n = 0 THEN {<<>>}
    ELSE LET prev == TextsOf(n - 1)
         IN  prev \cup {t \o p : t \in prev, p \in Phrases}

AgeTexts == TextsOf(MaxPhrases)

(***************************************************************************)
(* _flatten_knowledge / process_item, rag_handler.py:56-173                *)
(*                                                                         *)
(* A JSON value is a node [kind, str, items]: kind "str" carries a text,   *)
(* kind "list" carries its elements as items (keys unused), kind "dict"    *)
(* carries its key/value pairs as items, in the dict's iteration order.    *)
(***************************************************************************)
Str(t) == [kind |-> "str", str |-> t, items |-> <<>>]

Item(k, v) == [key |-> k, val |-> v]

List(elems) ==
    [kind |-> "list", str |-> <<>>,
     items |-> [i \in 1..Len(elems) |-> Item(<<>>, elems[i])]]

Dict(items) == [kind |-> "dict", str |-> <<>>, items |-> items]

\* "key" in item
HasKey(item, k) == \E i \in 1..Len(item.items) : item.items[i].key = k

\* item["key"]
Get(item, k) == item.items[CHOOSE i \in 1..Len(item.items) : item.items[i].key = k].val

\* Python's `a or b` on Optional[int]: None and 0 are both falsy
PyOr(a, b) == IF a # None /\ a # 0 THEN a ELSE b

\* the merge of the question's and the answer's age info (lines 114-118, 134-138, 149-153)
MergeAgeInfo(q, a) ==
    [min_age |-> PyOr(q.min_age, a.min_age),
     max_age |-> PyOr(q.max_age, a.max_age),
     has_age_info |-> q.has_age_info \/ a.has_age_info]

\* the unit appended to documents (lines 120-126, 140-146, 155-161)
MakeDocument(q, a, context) ==
    [text |-> q \o a, question |-> q, answer |-> a, context |-> context,
     age_info |-> MergeAgeInfo(extract_age_info(q), extract_age_info(a))]

\* str.strip() on a string of atoms
RECURSIVE LStrip(_)
LStrip(s) == IF s # <<>> /\ Head(s) = " " THEN LStrip(Tail(s)) ELSE s

RECURSIVE RStrip(_)
RStrip(s) == IF s # <<>> /\ s[Len(s)] = " " THEN RStrip(SubSeq(s, 1, Len(s) - 1)) ELSE s

Strip(s) == RStrip(LStrip(s))

\* mutant: the key is put in front of the context
NewContextInnerFirst(context, key) == Strip(key \o <<" ">> \o context)

\* new_context = f"{context} {key}".strip()  (line 165)
NewContext(context, key) == Strip(context \o <<" ">> \o key)

\* the units of a question/answer mapping (lines 108-161)
EmitUnits(item, context) ==
    IF HasKey(item, <<"vopros">>) /\ HasKey(item, <<"otvet">>)
    THEN <<MakeDocument(Get(item, <<"vopros">>).str, Get(item, <<"otvet">>).str, context)>>
    ELSE IF HasKey(item, <<"question">>) /\ HasKey(item, <<"answer">>)
    THEN LET qs == Get(item, <<"question">>)
             a == Get(item, <<"answer">>).str
         IN  IF qs.kind = "list"
             THEN [i \in 1..Len(qs.items) |-> MakeDocument(qs.items[i].val.str, a, context)]
             ELSE <<MakeDocument(qs.str, a, context)>>
    ELSE <<>>

RECURSIVE process_item(_, _)
RECURSIVE ProcessItems(_, _, _)
\* the loops of lines 164-166 (a dict: each value under its key's context) and
\* 169-170 (a list: each element under the unchanged context), from item n on
ProcessItems(item, context, n) ==
    IF n > Len(item.items) THEN <<>>
    ELSE process_item(item.items[n].val,
                      IF item.kind = "dict" THEN NewContext(context, item.items[n].key)
                      ELSE context)
         \o ProcessItems(item, context, n + 1)

process_item(item, context) ==
    IF item.kind = "dict" THEN EmitUnits(item, context) \o ProcessItems(item, context, 1)
    ELSE IF item.kind = "list" THEN ProcessItems(item, context, 1)
    ELSE <<>>

\* process_item(data); return documents  (lines 172-173)
flatten_knowledge(data) == process_item(data, <<>>)

(***************************************************************************)
(* Knowledge trees given to the flattener: a question/answer mapping (or a *)
(* plain leaf) wrapped in up to MaxDepth dicts and lists.                  *)
(***************************************************************************)
QuestionTexts == {<<"q">>, <<"ot", "0", "do", "5", "let">>, <<"0", "let">>}
AnswerTexts == {<<"x">>, <<"5", "let">>}

QAItemsRu(q, a) == <<Item(<<"vopros">>, Str(q)), Item(<<"otvet">>, Str(a))>>
QAItemsEn(q, a) == <<Item(<<"question">>, Str(q)), Item(<<"answer">>, Str(a))>>
QAItemsList(qs, a) ==
    <<Item(<<"question">>, List([i \in 1..Len(qs) |-> Str(qs[i])])), Item(<<"answer">>, Str(a))>>

QuestionLists ==
    {<<>>} \cup {<<q>> : q \in QuestionTexts} \cup {<<q1, q2>> : q1 \in QuestionTexts, q2 \in QuestionTexts}

BaseTrees ==
    {Dict(QAItemsRu(<<"q">>, a)) : a \in AnswerTexts}
    \cup {Dict(QAItemsEn(q, <<"x">>)) : q \in QuestionTexts}
    \cup {Dict(QAItemsList(qs, <<"x">>)) : qs \in QuestionLists}
    \cup {Str(<<"x">>), Dict(<<>>)}

SiblingQA == Dict(QAItemsRu(<<"q">>, <<"x">>))

\* the ways a tree is wrapped: under a key (two plain ones, one with a trailing
\* blank, the empty key), beside a sibling question/answer pair, beside a
\* sibling subtree, or as a list element
WrapKinds == {"key a", "key b", "key c", "key empty", "in qa", "with sibling", "list", "list of two"}

Wrap(w, t) ==
    CASE w = "key a" -> Dict(<<Item(<<"a">>, t)>>)
      [] w = "key b" -> Dict(<<Item(<<"b">>, t)>>)
      [] w = "key c" -> Dict(<<Item(<<"c", " ">>, t)>>)
      [] w = "key empty" -> Dict(<<Item(<<>>, t)>>)
      [] w = "in qa" -> Dict(QAItemsEn(<<"q">>, <<"5", "let">>) \o <<Item(<<"a">>, t)>>)
      [] w = "with sibling" -> Dict(<<Item(<<"a">>, t), Item(<<"d">>, SiblingQA)>>)
      [] w = "list" -> List(<<t>>)
      [] w = "list of two" -> List(<<SiblingQA, t>>)

\* the wrappings of a base tree, innermost first, up to MaxDepth of them
WrapSeqs == UNION {[1..d -> WrapKinds] : d \in 0..MaxDepth}

RECURSIVE WrapAll(_, _, _)
WrapAll(t, ws, n) == IF n > Len(ws) THEN t ELSE WrapAll(Wrap(ws[n], t), ws, n + 1)

KnowledgeTree(base, ws) == WrapAll(base, ws, 1)

(***************************************************************************)
(* RAGSingleton, rag_singleton.py                                          *)
(*                                                                         *)
(* The encoder (_get_embedding) is an external capability, deterministic   *)
(* in its input: the model's encoder maps a text to one of four unit       *)
(* vectors, a quarter turn apart, by the text's length.  Similarities are  *)
(* cosines scaled by 100.                                                  *)
(***************************************************************************)
Embeddings == 0..3

\* self._get_embedding(text), when the encoder does not fail
Encode(text) == Len(text) % 4

\* cosine_similarity(query_embedding, doc_embedding)[0][0], times 100
CosineSimilarity(a, b) ==
    LET turn == IF a >= b THEN a - b ELSE b - a
    IN  CASE turn = 0 -> 100
          [] turn = 2 -> -100
          [] OTHER -> 0

\* a paragraph of a DOCX file: paragraph.style.name.startswith('Heading'),
\* paragraph.text.strip()
Paragraph(h, t) == [heading |-> h, text |-> t, named |-> TRUE]

\* a paragraph whose style has no name: paragraph.style.name is None and
\* .startswith (line 60) raises
UnnamedStyle == [heading |-> FALSE, text |-> <<>>, named |-> FALSE]

ParagraphSet == {Paragraph(TRUE, <<"A">>), Paragraph(FALSE, <<"x">>), Paragraph(FALSE, <<>>)}

MaxParagraphs == 3    \* paragraphs of a DOCX file

RECURSIVE ParagraphSeqs(_)
ParagraphSeqs(n) ==
    IF n = 0 THEN {<<>>}
    ELSE LET prev == ParagraphSeqs(n - 1)
         IN  prev \cup {Append(ps, p) : ps \in prev, p \in ParagraphSet}

\* a file of the knowledge base directory: readable with its paragraphs, or one
\* that docx.Document() cannot open
DocxFile(ok, ps) == [readable |-> ok, paragraphs |-> ps]
DocxFiles == {DocxFile(TRUE, ps) : ps \in ParagraphSeqs(MaxParagraphs)} \cup {DocxFile(FALSE, <<>>)}

\* files that open but hold a paragraph on which the loop of lines 59-74 raises
BrokenDocx ==
    {DocxFile(TRUE, <<Paragraph(FALSE, <<"x">>), UnnamedStyle>>),
     DocxFile(TRUE, <<Paragraph(TRUE, <<"A">>), Paragraph(FALSE, <<"x">>),
                      Paragraph(TRUE, <<"A">>), UnnamedStyle>>)}

\* the file raises somewhere inside the try block of lines 54-85
FileFails(f) == ~f.readable \/ \E n \in 1..Len(f.paragraphs) : ~f.paragraphs[n].named

\* the files of at most one paragraph
ShortDocx == {DocxFile(TRUE, ps) : ps \in ParagraphSeqs(1)}

\* the directory listings glob("*.docx") can yield: none, one file, or a short
\* file next to an unreadable file or to its copy
Directories ==
    {<<>>}
    \cup {<<f>> : f \in DocxFiles \cup BrokenDocx}
    \cup {<<DocxFile(FALSE, <<>>), f>> : f \in ShortDocx}
    \cup {<<f, DocxFile(FALSE, <<>>)>> : f \in ShortDocx}
    \cup {<<f, f>> : f \in ShortDocx}

\* " ".join(current_text)
RECURSIVE JoinTexts(_)
JoinTexts(texts) == IF texts = <<>> THEN <<>> ELSE Head(texts) \o JoinTexts(Tail(texts))

\* the unit appended at lines 63-68 and 78-83
SectionDocument(heading, texts) ==
    [text |-> JoinTexts(texts), question |-> heading, answer |-> JoinTexts(texts),
     context |-> heading]

\* the paragraph loop of lines 59-74, from paragraph n on, and the last block of
\* lines 77-83: the units appended to knowledge_base["documents"]; an exception
\* leaves the loop for the handler of line 86 and keeps what was appended
RECURSIVE LoadParagraphs(_, _, _, _)
LoadParagraphs(ps, n, current_heading, current_text) ==
    IF n > Len(ps)
    THEN IF current_text # <<>> THEN <<SectionDocument(current_heading, current_text)>> ELSE <<>>
    ELSE IF ~ps[n].named THEN <<>>
    ELSE IF ps[n].heading
    THEN (IF current_text # <<>>
          THEN <<SectionDocument(current_heading, current_text)>> ELSE <<>>)
         \o LoadParagraphs(ps, n + 1, ps[n].text, <<>>)
    ELSE IF ps[n].text # <<>>
    THEN LoadParagraphs(ps, n + 1, current_heading, Append(current_text, ps[n].text))
    ELSE LoadParagraphs(ps, n + 1, current_heading, current_text)

\* one pass of the file loop (lines 53-87): an unreadable file is logged and skipped
LoadFile(f) == IF f.readable THEN LoadParagraphs(f.paragraphs, 1, <<>>, <<>>) ELSE <<>>

\* RAGSingleton._load_knowledge_base: knowledge_base["documents"]
RECURSIVE load_knowledge_base(_)
load_knowledge_base(files) ==
    IF files = <<>> THEN <<>> ELSE LoadFile(Head(files)) \o load_knowledge_base(Tail(files))

\* RAGSingleton._create_embeddings from document n on; `failing` are the texts
\* on which the encoder raises.  Yields the cache, whether the call raised, and
\* the texts given to the encoder, in order.
RECURSIVE create_embeddings(_, _, _, _)
create_embeddings(documents, cache, n, failing) ==
    IF n > Len(documents) THEN [cache |-> cache, raised |-> FALSE, encoded |-> <<>>]
    ELSE LET text == documents[n].text
         IN  IF text \in DOMAIN cache
             THEN create_embeddings(documents, cache, n + 1, failing)
             ELSE IF text \in failing
             THEN [cache |-> cache, raised |-> TRUE, encoded |-> <<text>>]
             ELSE LET rest == create_embeddings(documents,
                                                [t \in DOMAIN cache \cup {text} |->
                                                    IF t = text THEN Encode(text) ELSE cache[t]],
                                                n + 1, failing)
                  IN  [rest EXCEPT !.encoded = <<text>> \o @]

\* one (score, doc) pair of zip(all_scores, all_docs)
ScoredDoc(score, doc) == [score |-> score, doc |-> doc]

\* sorted(..., key=lambda x: x[0], reverse=True) is stable: a pair goes behind
\* every earlier pair whose score is at least its own
InsertByScore(sorted, p) ==
    LET k == Cardinality({i \in 1..Len(sorted) : sorted[i].score >= p.score})
    IN  SubSeq(sorted, 1, k) \o <<p>> \o SubSeq(sorted, k + 1, Len(sorted))

RECURSIVE SortedPairs(_)
SortedPairs(pairs) ==
    IF pairs = <<>> THEN <<>>
    ELSE InsertByScore(SortedPairs(SubSeq(pairs, 1, Len(pairs) - 1)), pairs[Len(pairs)])

\* sorted_pairs[:top_k] for top_k >= 0
Slice(seq, top_k) == SubSeq(seq, 1, IF top_k < Len(seq) THEN top_k ELSE Len(seq))

\* RAGSingleton._get_relevant_documents (lines 121-146): the documents returned,
\* or the KeyError of line 132
get_relevant_documents(documents, cache, query, top_k) ==
    IF \E n \in 1..Len(documents) : documents[n].text \notin DOMAIN cache
    THEN [kind |-> "raise", exc |-> "KeyError", docs |-> <<>>]
    ELSE LET query_embedding == Encode(query)
             pairs == [n \in 1..Len(documents) |->
                          ScoredDoc(CosineSimilarity(query_embedding, cache[documents[n].text]),
                                    documents[n])]
             sorted_pairs == SortedPairs(pairs)
         IN  [kind |-> "return", exc |-> "",
              docs |-> [n \in 1..Len(Slice(sorted_pairs, top_k)) |-> sorted_pairs[n].doc]]

\* the default of the top_k parameter (line 121)
DefaultTopK == 3

MaxTopK == 2          \* top_k of a direct call of _get_relevant_documents

Queries == {<<"x">>, <<"x", "x">>, <<"x", "x", "x">>}

(***************************************************************************)
(* The outcome of a call: what it returned, or the exception it raised.    *)
(* A (answer, documents) result has answer_is_none for a None answer; a    *)
(* list result has its documents in docs.                                  *)
(***************************************************************************)
NoCall ==
    [op |-> "none", kind |-> "none", exc |-> "", query |-> <<>>, top_k |-> 0,
     answer_is_none |-> TRUE, answer |-> <<>>, docs |-> <<>>]

Raised(op, query, top_k, exc) ==
    [op |-> op, kind |-> "raise", exc |-> exc, query |-> query, top_k |-> top_k,
     answer_is_none |-> TRUE, answer |-> <<>>, docs |-> <<>>]

ReturnedDocs(op, query, top_k, docs) ==
    [op |-> op, kind |-> "return", exc |-> "", query |-> query, top_k |-> top_k,
     answer_is_none |-> TRUE, answer |-> <<>>, docs |-> docs]

ReturnedAnswer(op, query, top_k, answer, docs) ==
    [op |-> op, kind |-> "return", exc |-> "", query |-> query, top_k |-> top_k,
     answer_is_none |-> FALSE, answer |-> answer, docs |-> docs]

\* RAGSingleton.get_rag_response (lines 109-119)
singleton_get_rag_response(documents, cache, query) ==
    LET relevant == get_relevant_documents(documents, cache, query, DefaultTopK)
    IN  IF relevant.kind = "raise"
        THEN Raised("get_rag_response", query, DefaultTopK, relevant.exc)
        ELSE IF relevant.docs = <<>>
        THEN ReturnedDocs("get_rag_response", query, DefaultTopK, <<>>)
        ELSE ReturnedAnswer("get_rag_response", query, DefaultTopK,
                            relevant.docs[1].answer, relevant.docs)

\* the sets of texts the encoder may refuse during one index build: none, or one
\* of the texts of the documents
FailingChoices(documents) == {{}} \cup {{documents[n].text} : n \in 1..Len(documents)}

(***************************************************************************)
(* RAGHandler, rag_handler.py                                              *)
(***************************************************************************)
\* the attributes of a RAGHandler instance: those __init__ sets (lines 22-32) and
\* the methods the class defines (lines 15-555).  extract_age_info is a function
\* local to _flatten_knowledge (line 68), not an attribute.
RAGHandlerAttributes ==
    {"logger", "knowledge_base_dir", "model", "embeddings_cache", "knowledge_base",
     "_load_knowledge_base", "_flatten_knowledge", "_create_embeddings",
     "_get_relevant_documents", "_determine_context", "get_rag_response",
     "_is_similar_question", "_normalize_text"}

\* evaluating self.<name>: found, or AttributeError
SelfAttribute(name) == IF name \in RAGHandlerAttributes THEN "found" ELSE "AttributeError"

\* a JSON file of the knowledge base directory: its stem and its parsed content,
\* or a file json.load() rejects
JsonFile(category, ok, data) == [category |-> category, readable |-> ok, data |-> data]

\* RAGHandler._load_knowledge_base (lines 35-54): one entry per file that loads,
\* in glob order; a file that fails is logged and skipped
RECURSIVE handler_load_knowledge_base(_)
handler_load_knowledge_base(files) ==
    IF files = <<>> THEN <<>>
    ELSE (IF Head(files).readable
          THEN <<[category |-> Head(files).category,
                  documents |-> flatten_knowledge(Head(files).data)]>>
          ELSE <<>>)
         \o handler_load_knowledge_base(Tail(files))

\* the texts of all documents of a knowledge base, with their categories
CategoryTexts(kb) ==
    UNION {{<<kb[c].category, kb[c].documents[n].text>> : n \in 1..Len(kb[c].documents)} :
              c \in 1..Len(kb)}

\* the texts RAGHandler._create_embeddings gives to the encoder, from document n
\* of category c on: one call per text not yet cached under its category
\* (lines 183-187)
RECURSIVE HandlerEncoded(_, _, _, _)
HandlerEncoded(kb, c, n, cached) ==
    IF c > Len(kb) THEN <<>>
    ELSE IF n > Len(kb[c].documents) THEN HandlerEncoded(kb, c + 1, 1, cached)
    ELSE LET entry == <<kb[c].category, kb[c].documents[n].text>>
         IN  IF entry \in cached THEN HandlerEncoded(kb, c, n + 1, cached)
             ELSE <<entry[2]>> \o HandlerEncoded(kb, c, n + 1, cached \cup {entry})

\* RAGHandler._create_embeddings (lines 175-187) on the empty cache of __init__:
\* every (category, text) gets its entry unless the encoder raises on a text
handler_create_embeddings(kb, failing) ==
    IF \E e \in CategoryTexts(kb) : e[2] \in failing
    THEN [cache |-> {}, raised |-> TRUE, encoded |-> <<>>]
    ELSE [cache |-> CategoryTexts(kb), raised |-> FALSE,
          encoded |-> HandlerEncoded(kb, 1, 1, {})]

(***************************************************************************)
(* The scoring of RAGHandler._get_relevant_documents (lines 203-293).      *)
(* A score is kept exactly, as an integer numerator over a fixed           *)
(* denominator: the base similarity in tenths, every factor of lines       *)
(* 228-271 in tenths, the jitter factor of line 274 in hundredths.         *)
(***************************************************************************)
\* the characters re.sub(r'[^\w\s]', '', text) removes, standing alone as words
Punctuation == {"-", "?", "!", ","}

\* self._normalize_text(text).split()  (lines 547-555): the lower-cased words
\* that are left when the punctuation is removed
RECURSIVE normalize_text(_)
normalize_text(text) ==
    IF text = <<>> THEN <<>>
    ELSE (IF Head(text) \in Punctuation THEN <<>> ELSE <<LowerWord(Head(text))>>)
         \o normalize_text(Tail(text))

\* the set of the elements of a sequence
Range(seq) == {seq[i] : i \in 1..Len(seq)}

\* len(query_keywords.intersection(doc_text.split()))  (lines 204, 225-226)
keyword_matches(query, text) ==
    Cardinality(Range(normalize_text(query)) \cap Range(normalize_text(text)))

\* 1 + 0.1 * keyword_matches, in tenths (lines 227-228)
KeywordFactor(matches) == 10 + matches

\* |a - b|
Abs(n) == IF n < 0 THEN 0 - n ELSE n

\* the age factor, in tenths (lines 231-256)
AgeFactor(query_age_info, doc_age_info) ==
    IF ~(query_age_info.has_age_info /\ doc_age_info.has_age_info) THEN 10
    ELSE LET query_min == query_age_info.min_age
             query_max == query_age_info.max_age
             doc_min == doc_age_info.min_age
             doc_max == doc_age_info.max_age
         IN  IF query_min # None /\ doc_min # None /\ query_max # None /\ doc_max # None
             THEN IF query_min <= doc_max /\ query_max >= doc_min
                  THEN IF query_min = doc_min /\ query_max = doc_max THEN 18 ELSE 15
                  ELSE 5
             ELSE IF query_min # None /\ doc_min # None
             THEN IF Abs(query_min - doc_min) <= 2 THEN 13 ELSE 10
             ELSE IF query_max # None /\ doc_max # None
             THEN IF Abs(query_max - doc_max) <= 2 THEN 13 ELSE 10
             ELSE 10

\* len(word) for the words of the model; "essay" and "passage" stand for long
\* runs of text
Chars(word) ==
    CASE word = "essay" -> 250
      [] word = "da" -> 2
      [] word = "passage" -> 100
      [] OTHER -> 5

\* len(text) of a text of words joined by single blanks
RECURSIVE CharLen(_)
CharLen(text) ==
    IF text = <<>> THEN 0
    ELSE IF Len(text) = 1 THEN Chars(text[1])
    ELSE Chars(text[1]) + 1 + CharLen(Tail(text))

\* the answer-length thresholds of lines 260 and 262
LongAnswer == 200
ShortAnswer == 50

\* the answer-length factor, in tenths (lines 259-263)
LengthFactor(answer) ==
    IF CharLen(answer) > LongAnswer THEN 12
    ELSE IF CharLen(answer) < ShortAnswer THEN 8
    ELSE 10

\* the word lists of lines 266 and 270, transliterated
PriceWords == {"rub", "rublei", "stoit", "tsena", "stoimost"}
RequirementWords == {"trebuetsya", "neobkhodimo", "nuzhno", "obyazatelno"}

\* any(word in text.lower() for word in words)
AnyWordIn(words, text) == \E i \in 1..Len(text) : LowerWord(text[i]) \in words

\* the price and requirement factors, in tenths (lines 266-271)
PriceFactor(text) == IF AnyWordIn(PriceWords, text) THEN 11 ELSE 10
RequirementFactor(text) == IF AnyWordIn(RequirementWords, text) THEN 11 ELSE 10

\* 1 + np.random.normal(0, 0.01), in hundredths, for a draw of jitter hundredths
\* (line 274)
JitterFactor(jitter) == 100 + jitter

\* final_similarity of lines 222-274 for one document
final_similarity(query, query_age_info, doc, base_similarity, jitter) ==
    base_similarity
        * KeywordFactor(keyword_matches(query, doc.text))
        * AgeFactor(query_age_info, doc.age_info)
        * LengthFactor(doc.answer)
        * PriceFactor(doc.text)
        * RequirementFactor(doc.text)
        * JitterFactor(jitter)

\* the loop of lines 283-291 from pair n on: a unit is appended before the length
\* is tested against top_k
RECURSIVE UniqueDocs(_, _, _, _, _)
UniqueDocs(sorted_pairs, n, seen_answers, unique_docs, top_k) ==
    IF n > Len(sorted_pairs) THEN unique_docs
    ELSE LET doc == sorted_pairs[n].doc
             kept == IF doc.answer \in seen_answers THEN unique_docs
                     ELSE Append(unique_docs, doc)
         IN  IF Len(kept) >= top_k THEN kept
             ELSE UniqueDocs(sorted_pairs, n + 1, seen_answers \cup {doc.answer}, kept, top_k)

\* lines 203-293 for the candidates [doc, base_similarity, jitter] in the order
\* in which lines 210-211 iterate the knowledge base
RankedUnits(query, query_age_info, candidates, top_k) ==
    LET pairs == [n \in 1..Len(candidates) |->
                     ScoredDoc(final_similarity(query, query_age_info, candidates[n].doc,
                                                candidates[n].base_similarity,
                                                candidates[n].jitter),
                               candidates[n].doc)]
    IN  UniqueDocs(SortedPairs(pairs), 1, {}, <<>>, top_k)

\* RAGHandler._determine_context (lines 295-337): the keyword flags of lines
\* 305-330 are locals; line 333 evaluates self._extract_age_info
determine_context(query) == SelfAttribute("_extract_age_info")

\* RAGHandler._get_relevant_documents (lines 189-293): line 200 encodes the query,
\* line 201 evaluates self._extract_age_info
handler_get_relevant_documents(query, top_k) ==
    IF SelfAttribute("_extract_age_info") = "AttributeError"
    THEN Raised("_get_relevant_documents", query, top_k, "AttributeError")
    ELSE ReturnedDocs("_get_relevant_documents", query, top_k, <<>>)

\* RAGHandler.get_rag_response (lines 339-507): line 350 calls _determine_context
\* and line 360 _get_relevant_documents(search_query, top_k=5); neither call is
\* inside a try block
RagTopK == 5

handler_get_rag_response(query) ==
    IF determine_context(query) = "AttributeError"
    THEN Raised("get_rag_response", query, RagTopK, "AttributeError")
    ELSE LET relevant == handler_get_relevant_documents(query, RagTopK)
         IN  [relevant EXCEPT !.op = "get_rag_response"]

\* the keyword sets of lines 317 and 321, transliterated; a word of a model text
\* either is one of them or contains none of them
SchoolKeywords == {"shkola", "klass", "uchenik", "shkolnik", "uchitel", "urok", "shkolnyi"}
KindergartenKeywords == {"sad", "sadik", "detskii sad", "doshkolnyi", "doshkolnik", "vospitatel", "gruppa"}

\* context['is_school'] (line 318) and context['is_kindergarten'] (line 322)
is_school(query) == \E i \in 1..Len(query) : Lower(query)[i] \in SchoolKeywords
is_kindergarten(query) == \E i \in 1..Len(query) : Lower(query)[i] \in KindergartenKeywords

\* the keyword lists of the context filter (lines 377 and 379), transliterated
SchoolFilterWords == {"shkola", "klass", "uchenik"}
KindergartenFilterWords == {"sad", "sadik", "gruppa"}

\* the section headers of the composed answer, in the order lines 472-502 append
\* them: ages, prices, requirements, details, related topics, clarifying questions
SectionHeaders ==
    <<"Dopolnitelnaya informatsiya po vozrastam:", "Informatsiya o stoimosti:",
      "Vazhnye trebovaniya:", "Dopolnitelnaya informatsiya:", "Svyazannye temy:",
      "Chtoby predostavit bolee tochnuyu informatsiyu, otvette, pozhaluista:">>

\* the three clarifying prompts of lines 365, 367 and 369; "?" is a word of its own
SchoolPrompt ==
    <<"V kakoi klass planiruete postupat", "?",
      "Eto pomozhet mne predostavit tochnuyu informatsiyu o programme obucheniya, stoimosti i usloviyakh.">>
KindergartenPrompt ==
    <<"Kakoi vozrast rebenka vas interesuet", "?",
      "Eto pomozhet mne rasskazat o podkhodyashchei gruppe i programme razvitiya.">>
GenericPrompt ==
    <<"Chto imenno vas interesuet - shkola ili detskii sad", "?",
      "Ya pomogu podobrat optimalnyi variant.">>

\* the prompt lines 364-369 choose for a query
ClarifyingPrompt(query) ==
    IF is_school(query) THEN SchoolPrompt
    ELSE IF is_kindergarten(query) THEN KindergartenPrompt
    ELSE GenericPrompt

\* the openings of the age qualifiers of lines 429-435 and 463-469
AgeQualifierOpenings == {"Dlya vozrasta", "Dlya detei starshe", "Dlya detei mladshe"}

(***************************************************************************)
(* The body of RAGHandler.get_rag_response after its call of               *)
(* _determine_context (lines 352-507), on a given context and a given      *)
(* ranked list.  A composed answer is a list of lines; a line is a         *)
(* sequence of words, "<nl>" standing for a line break inside a line.      *)
(***************************************************************************)
\* the price keywords of line 326, transliterated
PriceKeywords == {"tsena", "stoimost", "tseny", "stoit", "oplata", "platit", "rublei", "rub"}

\* the context dictionary _determine_context builds (lines 305-337) for a query
\* whose age_info has the given has_age_info; no line sets 'grade_mentioned'
Context(query, age_mentioned) ==
    [is_school |-> is_school(query), is_kindergarten |-> is_kindergarten(query),
     is_price_query |-> AnyWordIn(PriceKeywords, query), age_mentioned |-> age_mentioned,
     grade_mentioned |-> FALSE]

\* the query handed to the ranker (lines 353-357)
search_query(query, context) ==
    IF context.is_school THEN <<"shkola">> \o query
    ELSE IF context.is_kindergarten THEN <<"detskii sad">> \o query
    ELSE query

\* the context filter of lines 372-386
filtered_docs(context, relevant_docs) ==
    LET Keep(doc) ==
            /\ context.is_school =>
                   AnyWordIn(SchoolFilterWords, Lower(doc.question \o doc.answer))
            /\ context.is_kindergarten =>
                   AnyWordIn(KindergartenFilterWords, Lower(doc.question \o doc.answer))
        kept == SelectSeq(relevant_docs, Keep)
    IN  IF kept = <<>> THEN relevant_docs ELSE kept

\* the clarifying questions of lines 389-391 and 404-417
clarifying_questions(context, docs) ==
    LET has_pricing == \E n \in 1..Len(docs) : AnyWordIn({"stoimost", "tsena"}, docs[n].answer)
        has_program == \E n \in 1..Len(docs) : AnyWordIn({"programma", "zanyatiya"}, docs[n].answer)
        has_schedule == \E n \in 1..Len(docs) : AnyWordIn({"raspisanie", "grafik"}, docs[n].answer)
        ask_price == ~has_pricing /\ ~context.is_price_query
    IN  IF context.is_school
        THEN (IF ~context.grade_mentioned THEN <<<<"V kakoi klass planiruete postupat?">>>> ELSE <<>>)
             \o (IF ask_price THEN <<<<"Khotite uznat podrobnee o stoimosti obucheniya?">>>> ELSE <<>>)
             \o (IF ~has_program
                 THEN <<<<"Interesuet li vas informatsiya o programme obucheniya i dopolnitelnykh zanyatiyakh?">>>>
                 ELSE <<>>)
        ELSE IF context.is_kindergarten
        THEN (IF ~context.age_mentioned THEN <<<<"Kakoi vozrast rebenka vas interesuet?">>>> ELSE <<>>)
             \o (IF ask_price THEN <<<<"Khotite uznat podrobnee o stoimosti poseshcheniya?">>>> ELSE <<>>)
             \o (IF ~has_schedule
                 THEN <<<<"Interesuet li vas rezhim raboty i raspisanie zanyatii?">>>>
                 ELSE <<>>)
        ELSE <<>>

\* the age qualifier of lines 425-435 and 459-469 for a unit's age_info, without
\* the separator that follows it; empty when neither bound is set
AgeQualifier(age_info) ==
    IF age_info.min_age # None /\ age_info.max_age # None
    THEN IF age_info.min_age = age_info.max_age
         THEN <<"Dlya vozrasta", ToString(age_info.min_age), "let:">>
         ELSE <<"Dlya vozrasta", ToString(age_info.min_age), "-",
                ToString(age_info.max_age), "let:">>
    ELSE IF age_info.min_age # None
    THEN <<"Dlya detei starshe", ToString(age_info.min_age), "let:">>
    ELSE IF age_info.max_age # None
    THEN <<"Dlya detei mladshe", ToString(age_info.max_age), "let:">>
    ELSE <<>>

\* len(doc['answer']) > 50 (line 450)
DetailLength == 50

\* additional_info after the loop over filtered_docs[1:] (lines 394-451)
additional_info(context, docs) ==
    LET rest == Tail(docs)
        HasAgeLine(doc) ==
            /\ context.age_mentioned /\ doc.age_info.has_age_info
            /\ AgeQualifier(doc.age_info) # <<>>
        HasPrice(doc) ==
            context.is_price_query /\ AnyWordIn(PriceWords, doc.question \o doc.answer)
        HasRequirement(doc) == AnyWordIn(RequirementWords, doc.question \o doc.answer)
        IsDetailed(doc) == CharLen(doc.answer) > DetailLength
        Answers(ds) == [n \in 1..Len(ds) |-> ds[n].answer]
        aged == SelectSeq(rest, HasAgeLine)
    IN  [age_specific |-> [n \in 1..Len(aged) |->
                              AgeQualifier(aged[n].age_info) \o aged[n].answer],
         pricing_info |-> Answers(SelectSeq(rest, HasPrice)),
         requirements |-> Answers(SelectSeq(rest, HasRequirement)),
         additional_details |-> Answers(SelectSeq(rest, IsDetailed)),
         related_topics |-> {rest[n].context : n \in 1..Len(rest)} \ {<<>>}]

\* the orders in which list(a_set) can yield the elements of a set (line 496)
OrderingsOf(S) ==
    {s \in [1..Cardinality(S) -> S] : \A i, j \in 1..Cardinality(S) : s[i] = s[j] => i = j}

\* lines 359-507: the answer and the unit list get_rag_response returns for the
\* ranked list relevant_docs, with the related topics in the order `topics`
compose(query, context, relevant_docs, topics) ==
    IF relevant_docs = <<>>
    THEN [full_answer |-> <<ClarifyingPrompt(query)>>, docs |-> <<>>]
    ELSE LET docs == filtered_docs(context, relevant_docs)
             info == additional_info(context, docs)
             questions == clarifying_questions(context, docs)
             best_doc == docs[1]
             qualifier == IF context.age_mentioned /\ best_doc.age_info.has_age_info
                          THEN AgeQualifier(best_doc.age_info) ELSE <<>>
             main_answer == IF qualifier = <<>> THEN best_doc.answer
                            ELSE qualifier \o <<"<nl>">> \o best_doc.answer
             Section(k, lines) ==
                 IF lines = <<>> THEN <<>> ELSE <<<<"<nl>", SectionHeaders[k]>>>> \o lines
         IN  [full_answer |->
                  <<main_answer>>
                  \o Section(1, IF context.age_mentioned THEN info.age_specific ELSE <<>>)
                  \o Section(2, IF context.is_price_query THEN info.pricing_info ELSE <<>>)
                  \o Section(3, info.requirements)
                  \o Section(4, info.additional_details)
                  \o Section(5, topics)
                  \o Section(6, questions),
              docs |-> docs]

\* the knowledge base directories of the model: up to two JSON files, each a
\* question/answer tree or a malformed file
\* a file with two question/answer mappings that share no word
TwoUnitTree ==
    Dict(<<Item(<<"a">>, Dict(QAItemsRu(<<"q">>, <<"x">>))),
           Item(<<"b">>, Dict(QAItemsRu(<<"z">>, <<"y">>)))>>)

JsonFiles(category) ==
    {JsonFile(category, TRUE, d) : d \in BaseTrees \cup {TwoUnitTree}}
    \cup {JsonFile(category, FALSE, Dict(<<>>))}

JsonDirectories ==
    {<<>>}
    \cup {<<f>> : f \in JsonFiles("school")}
    \cup {<<f, g>> : f \in JsonFiles("kindergarten"), g \in JsonFiles("school")}

HandlerQueries == {<<"shkola">>, <<"sad", "5", "let">>, <<"q">>, <<"q", "x">>}

\* the units of a RAGHandler knowledge base
KbUnits(kb) == UNION {Range(kb[c].documents) : c \in 1..Len(kb)}

\* the number of units of a RAGHandler knowledge base
RECURSIVE UnitTotal(_)
UnitTotal(kb) == IF kb = <<>> THEN 0 ELSE Len(Head(kb).documents) + UnitTotal(Tail(kb))

(***************************************************************************)
(* Idle values of the parts a specification leaves alone.                  *)
(***************************************************************************)
AgeIdle == [text |-> <<>>, result |-> NoAgeInfo, done |-> FALSE]
FlatIdle == [data |-> Dict(<<>>), documents |-> <<>>, done |-> FALSE]
HandlerIdle ==
    [constructed |-> FALSE, knowledge_base |-> <<>>, embeddings_cache |-> {}, encoded |-> <<>>]
CalcIdle == [op |-> "none", input |-> <<>>, output |-> <<>>, done |-> FALSE]

(***************************************************************************)
(* SpecAge: a text is drawn, extract_age_info is applied to it.            *)
(***************************************************************************)
InitAge ==
    /\ age \in {[text |-> t, result |-> NoAgeInfo, done |-> FALSE] : t \in AgeTexts}
    /\ flat = FlatIdle
    /\ knowledge_base = <<>>
    /\ embeddings_cache = <<>>
    /\ s_result = NoCall
    /\ h_state = HandlerIdle
    /\ h_result = NoCall
    /\ encoded = <<>>
    /\ calc = CalcIdle
    /\ refused = {}
    /\ BotIdle

ExtractAge ==
    /\ ~age.done
    /\ age' = [age EXCEPT !.result = extract_age_info(age.text), !.done = TRUE]
    /\ UNCHANGED <<flat, knowledge_base, embeddings_cache, s_result, h_state, h_result, encoded, calc, refused, bot_vars>>

NextAge == ExtractAge

SpecAge == InitAge /\ [][NextAge]_vars

(***************************************************************************)
(* SpecFlatten: a knowledge tree is drawn, _flatten_knowledge is applied.  *)
(***************************************************************************)
InitFlatten ==
    /\ age = AgeIdle
    /\ flat \in {[data |-> KnowledgeTree(b, ws), documents |-> <<>>, done |-> FALSE] :
                   b \in BaseTrees, ws \in WrapSeqs}
    /\ knowledge_base = <<>>
    /\ embeddings_cache = <<>>
    /\ s_result = NoCall
    /\ h_state = HandlerIdle
    /\ h_result = NoCall
    /\ encoded = <<>>
    /\ calc = CalcIdle
    /\ refused = {}
    /\ BotIdle

FlattenKnowledge ==
    /\ ~flat.done
    /\ flat' = [flat EXCEPT !.documents = flatten_knowledge(flat.data), !.done = TRUE]
    /\ UNCHANGED <<age, knowledge_base, embeddings_cache, s_result, h_state, h_result, encoded, calc, refused, bot_vars>>

NextFlatten == FlattenKnowledge

SpecFlatten == InitFlatten /\ [][NextFlatten]_vars

(***************************************************************************)
(* SpecScore: a query, its age info and two candidate units with their     *)
(* base similarities and jitter draws are drawn; the scoring, sort and     *)
(* duplicate removal of lines 203-293 are applied to them.  An encoder     *)
(* gives equal texts equal embeddings: candidates with one text have one   *)
(* base similarity, and a text equal to the query has base similarity 1.   *)
(***************************************************************************)
AgeRange(lo, hi) == [min_age |-> lo, max_age |-> hi, has_age_info |-> TRUE]

ScoreQueries == {<<"q", "x">>, <<"z">>}
ScoreQueryAges == {AgeRange(6, 6), NoAgeInfo}
ScoreDocAges == {AgeRange(5, 7), AgeRange(10, 12), AgeRange(6, 6), NoAgeInfo}
ScoreQuestions == {<<"q">>, <<"z">>}
ScoreAnswers == {<<"x">>, <<"y">>, <<"essay", "tsena">>}

ScoreUnits ==
    {[text |-> q \o a, question |-> q, answer |-> a, context |-> <<>>, age_info |-> ai] :
        q \in ScoreQuestions, a \in ScoreAnswers, ai \in ScoreDocAges}

\* base similarities, in tenths, and jitter draws, in hundredths (three standard
\* deviations of N(0, 0.01) either way)
BaseSimilarities == {-4, 0, 4, 10}
JitterDraws == {<<0, 0>>, <<-3, 3>>, <<3, -3>>}
ScoreTopK == {0, 2}

Candidate(doc, base_similarity, jitter) ==
    [doc |-> doc, base_similarity |-> base_similarity, jitter |-> jitter]

ScoreInput(query, qa, k, c1, c2) ==
    [query |-> query, query_age_info |-> qa, top_k |-> k, candidates |-> <<c1, c2>>]

EncoderConsistent(in) ==
    /\ in.candidates[1].doc.text = in.candidates[2].doc.text
           => in.candidates[1].base_similarity = in.candidates[2].base_similarity
    /\ \A n \in 1..2 : in.candidates[n].doc.text = in.query
           => in.candidates[n].base_similarity = 10

\* the age infos of a query or a unit: each bound set or not
AgeInfos ==
    {[min_age |-> lo, max_age |-> hi, has_age_info |-> lo # None \/ hi # None] :
        lo \in {None, 5, 6, 10}, hi \in {None, 6, 7, 12}}

InitScore ==
    /\ age = AgeIdle
    /\ flat = FlatIdle
    /\ knowledge_base = <<>>
    /\ embeddings_cache = <<>>
    /\ s_result = NoCall
    /\ h_state = HandlerIdle
    /\ h_result = NoCall
    /\ encoded = <<>>
    /\ \/ \E query \in ScoreQueries, qa \in ScoreQueryAges, k \in ScoreTopK,
             d1 \in ScoreUnits, d2 \in ScoreUnits,
             b1 \in BaseSimilarities, b2 \in BaseSimilarities, j \in JitterDraws :
              LET in == ScoreInput(query, qa, k, Candidate(d1, b1, j[1]), Candidate(d2, b2, j[2]))
              IN  /\ EncoderConsistent(in)
                  /\ calc = [op |-> "rank", input |-> in, output |-> <<>>, done |-> FALSE]
       \/ \E query \in ScoreQueries, qa \in AgeInfos, da \in AgeInfos,
             q \in ScoreQuestions, a \in ScoreAnswers, b \in BaseSimilarities :
              calc = [op |-> "score",
                      input |-> [query |-> query, query_age_info |-> qa,
                                 candidate |-> Candidate([text |-> q \o a, question |-> q,
                                                          answer |-> a, context |-> <<>>,
                                                          age_info |-> da], b, 0)],
                      output |-> <<>>, done |-> FALSE]
    /\ refused = {}
    /\ BotIdle

RankUnits ==
    /\ calc.op = "rank" /\ ~calc.done
    /\ calc' = [calc EXCEPT
                   !.output = RankedUnits(calc.input.query, calc.input.query_age_info,
                                          calc.input.candidates, calc.input.top_k),
                   !.done = TRUE]
    /\ UNCHANGED <<age, flat, knowledge_base, embeddings_cache, s_result, h_state, h_result,
                   encoded, refused, bot_vars>>

\* one pass of the loop body of lines 210-277 for one candidate: final_similarity
\* before the age block (after line 228), after it (line 256) and at line 274
ScoreCandidate ==
    /\ calc.op = "score" /\ ~calc.done
    /\ LET in == calc.input
           doc == in.candidate.doc
           before_age == in.candidate.base_similarity
                             * KeywordFactor(keyword_matches(in.query, doc.text))
       IN  calc' = [calc EXCEPT
                       !.output = [before_age |-> before_age,
                                   after_age |-> before_age
                                                     * AgeFactor(in.query_age_info, doc.age_info),
                                   final |-> final_similarity(in.query, in.query_age_info, doc,
                                                              in.candidate.base_similarity,
                                                              in.candidate.jitter)],
                       !.done = TRUE]
    /\ UNCHANGED <<age, flat, knowledge_base, embeddings_cache, s_result, h_state, h_result,
                   encoded, refused, bot_vars>>

NextScore == RankUnits \/ ScoreCandidate

SpecScore == InitScore /\ [][NextScore]_vars

(***************************************************************************)
(* SpecCompose: the body of get_rag_response on drawn queries, contexts    *)
(* and ranked lists.                                                       *)
(***************************************************************************)
MaxRanked == 3        \* units in the ranked list handed to the composer

ComposeQueries ==
    {<<"q">>, <<"shkola">>, <<"shkola", "5", "klass">>, <<"sad", "tsena">>}

ComposeUnits ==
    {MakeDocument(q, a, c) :
        q \in {<<"q">>, <<"5", "let">>},
        a \in {<<"x">>, <<"essay", "nuzhno">>, <<"tsena", "klass">>, <<"sad", "passage">>},
        c \in {<<>>, <<"a">>}}

\* the lists the ranker can return: units with pairwise different answers
\* (lines 283-291)
RankedLists ==
    {s \in UNION {[1..n -> ComposeUnits] : n \in 0..MaxRanked} :
        \A i, j \in 1..Len(s) : s[i].answer = s[j].answer => i = j}

InitCompose ==
    /\ age = AgeIdle
    /\ flat = FlatIdle
    /\ knowledge_base = <<>>
    /\ embeddings_cache = <<>>
    /\ s_result = NoCall
    /\ h_state = HandlerIdle
    /\ h_result = NoCall
    /\ encoded = <<>>
    /\ refused = {}
    /\ BotIdle
    /\ \E query \in ComposeQueries, age_mentioned \in BOOLEAN, relevant_docs \in RankedLists :
           calc = [op |-> "compose",
                   input |-> [query |-> query, context |-> Context(query, age_mentioned),
                              relevant_docs |-> relevant_docs],
                   output |-> <<>>, done |-> FALSE]

\* get_rag_response from line 352 on
Compose ==
    /\ calc.op = "compose" /\ ~calc.done
    /\ LET in == calc.input
           docs == filtered_docs(in.context, in.relevant_docs)
           related == IF docs = <<>> THEN {}
                      ELSE additional_info(in.context, docs).related_topics
       IN  \E topics \in OrderingsOf(related) :
               calc' = [calc EXCEPT
                           !.output = [search_query |-> search_query(in.query, in.context),
                                       composed |-> compose(in.query, in.context,
                                                            in.relevant_docs, topics)],
                           !.done = TRUE]
    /\ UNCHANGED <<age, flat, knowledge_base, embeddings_cache, s_result, h_state, h_result,
                   encoded, refused, bot_vars>>

NextCompose == Compose

SpecCompose == InitCompose /\ [][NextCompose]_vars

(***************************************************************************)
(* SpecLoad: the two knowledge base loaders on drawn directory listings.   *)
(***************************************************************************)
\* directory listings of two DOCX files, any of which may fail
DocxPairs == {<<f, g>> : f \in DocxFiles \cup BrokenDocx, g \in DocxFiles \cup BrokenDocx}

InitLoad ==
    /\ age = AgeIdle
    /\ flat = FlatIdle
    /\ knowledge_base = <<>>
    /\ embeddings_cache = <<>>
    /\ s_result = NoCall
    /\ h_state = HandlerIdle
    /\ h_result = NoCall
    /\ encoded = <<>>
    /\ refused = {}
    /\ BotIdle
    /\ \/ \E files \in Directories \cup DocxPairs :
              calc = [op |-> "load_docx", input |-> files, output |-> <<>>, done |-> FALSE]
       \/ \E files \in JsonDirectories :
              calc = [op |-> "load_json", input |-> files, output |-> <<>>, done |-> FALSE]

\* RAGSingleton._load_knowledge_base()
LoadDocx ==
    /\ calc.op = "load_docx" /\ ~calc.done
    /\ calc' = [calc EXCEPT !.output = load_knowledge_base(calc.input), !.done = TRUE]
    /\ UNCHANGED <<age, flat, knowledge_base, embeddings_cache, s_result, h_state, h_result,
                   encoded, refused, bot_vars>>

\* RAGHandler._load_knowledge_base()
LoadJson ==
    /\ calc.op = "load_json" /\ ~calc.done
    /\ calc' = [calc EXCEPT !.output = handler_load_knowledge_base(calc.input), !.done = TRUE]
    /\ UNCHANGED <<age, flat, knowledge_base, embeddings_cache, s_result, h_state, h_result,
                   encoded, refused, bot_vars>>

NextLoad == LoadDocx \/ LoadJson

SpecLoad == InitLoad /\ [][NextLoad]_vars

(***************************************************************************)
(* SpecSingleton: the RAGSingleton instance of main.py.  initialize_rag    *)
(* catches whatever initialize() raises, so the program runs on with the   *)
(* state the failed call left behind.                                      *)
(***************************************************************************)
InitSingleton ==
    /\ age = AgeIdle
    /\ flat = FlatIdle
    /\ knowledge_base = <<>>
    /\ embeddings_cache = <<>>
    /\ s_result = NoCall
    /\ h_state = HandlerIdle
    /\ h_result = NoCall
    /\ encoded = <<>>
    /\ calc = CalcIdle
    /\ refused = {}
    /\ BotIdle

\* RAGSingleton.initialize (lines 38-46), called through initialize_rag
Initialize ==
    \E files \in Directories :
        LET documents == load_knowledge_base(files)
        IN  \E failing \in FailingChoices(documents) :
                LET built == create_embeddings(documents, embeddings_cache, 1, failing)
                IN  /\ knowledge_base' = documents
                    /\ embeddings_cache' = built.cache
                    /\ encoded' = built.encoded
                    /\ s_result' = IF built.raised
                                   THEN Raised("initialize", <<>>, 0, "EncoderError")
                                   ELSE ReturnedDocs("initialize", <<>>, 0, <<>>)
                    /\ refused' = IF built.raised THEN failing ELSE {}
                    /\ UNCHANGED <<age, flat, h_state, h_result, calc, bot_vars>>

\* RAGSingleton.get_rag_response(query)
SingletonGetRagResponse ==
    \E query \in Queries :
        /\ s_result' = singleton_get_rag_response(knowledge_base, embeddings_cache, query)
        /\ UNCHANGED <<age, flat, knowledge_base, embeddings_cache, h_state, h_result, encoded, calc, refused, bot_vars>>

\* a ranker that keeps the embedding of each query it has seen in the cache
SingletonGetRelevantDocumentsMemo ==
    \E query \in Queries, top_k \in 0..MaxTopK :
        LET relevant == get_relevant_documents(knowledge_base, embeddings_cache, query, top_k)
        IN  /\ s_result' = IF relevant.kind = "raise"
                           THEN Raised("_get_relevant_documents", query, top_k, relevant.exc)
                           ELSE ReturnedDocs("_get_relevant_documents", query, top_k,
                                             relevant.docs)
            /\ embeddings_cache' = [t \in DOMAIN embeddings_cache \cup {query} |->
                                        IF t = query THEN Encode(query) ELSE embeddings_cache[t]]
            /\ UNCHANGED <<age, flat, knowledge_base, h_state, h_result, encoded, calc, refused, bot_vars>>

\* RAGSingleton._get_relevant_documents(query, top_k)
SingletonGetRelevantDocuments ==
    \E query \in Queries, top_k \in 0..MaxTopK :
        LET relevant == get_relevant_documents(knowledge_base, embeddings_cache, query, top_k)
        IN  /\ s_result' = IF relevant.kind = "raise"
                           THEN Raised("_get_relevant_documents", query, top_k, relevant.exc)
                           ELSE ReturnedDocs("_get_relevant_documents", query, top_k,
                                             relevant.docs)
            /\ UNCHANGED <<age, flat, knowledge_base, embeddings_cache, h_state, h_result, encoded, calc, refused, bot_vars>>

NextSingleton == Initialize \/ SingletonGetRagResponse \/ SingletonGetRelevantDocuments

SpecSingleton == InitSingleton /\ [][NextSingleton]_vars

(***************************************************************************)
(* SpecHandler: a RAGHandler instance is constructed and queried.          *)
(***************************************************************************)
InitHandler == InitSingleton

\* RAGHandler.__init__ (lines 15-33): load, then embed; an encoder failure leaves
\* no instance behind
HandlerConstruct ==
    /\ ~h_state.constructed
    /\ \E files \in JsonDirectories :
           LET kb == handler_load_knowledge_base(files)
           IN  \E failing \in {{}} \cup {{e[2]} : e \in CategoryTexts(kb)} :
                   LET built == handler_create_embeddings(kb, failing)
                   IN  /\ h_state' = IF built.raised THEN h_state
                                     ELSE [constructed |-> TRUE, knowledge_base |-> kb,
                                           embeddings_cache |-> built.cache,
                                           encoded |-> built.encoded]
                       /\ h_result' = IF built.raised
                                      THEN Raised("__init__", <<>>, 0, "EncoderError")
                                      ELSE ReturnedDocs("__init__", <<>>, 0, <<>>)
                       /\ refused' = IF built.raised THEN failing ELSE {}
    /\ UNCHANGED <<age, flat, knowledge_base, embeddings_cache, s_result, encoded, calc, bot_vars>>

\* RAGHandler.get_rag_response(query)
HandlerGetRagResponse ==
    /\ h_state.constructed
    /\ \E query \in HandlerQueries : h_result' = handler_get_rag_response(query)
    /\ UNCHANGED <<age, flat, knowledge_base, embeddings_cache, s_result, h_state, encoded, calc, refused, bot_vars>>

\* RAGHandler._get_relevant_documents(query, top_k)
HandlerGetRelevantDocuments ==
    /\ h_state.constructed
    /\ \E query \in HandlerQueries, top_k \in (0..MaxTopK) \cup {DefaultTopK} :
           h_result' = handler_get_relevant_documents(query, top_k)
    /\ UNCHANGED <<age, flat, knowledge_base, embeddings_cache, s_result, h_state, encoded, calc, refused, bot_vars>>

NextHandler == HandlerConstruct \/ HandlerGetRagResponse \/ HandlerGetRelevantDocuments

SpecHandler == InitHandler /\ [][NextHandler]_vars

(***************************************************************************)
(* Claims about the two query paths (SpecHandler, SpecSingleton).          *)
(***************************************************************************)
RankerCall(r) == r.op = "_get_relevant_documents"
ResponseCall(r) == r.op = "get_rag_response"

\* C1: on an index built from zero units, get_rag_response of RAGHandler and of
\* RAGSingleton returns (null, []) for every query.
C1_EmptyIndexReturnsNull ==
    /\ (ResponseCall(h_result) /\ UnitTotal(h_state.knowledge_base) = 0)
           => (h_result.kind = "return" /\ h_result.answer_is_none /\ h_result.docs = <<>>)
    /\ (ResponseCall(s_result) /\ knowledge_base = <<>>)
           => (s_result.kind = "return" /\ s_result.answer_is_none /\ s_result.docs = <<>>)

\* C2: on an index with at least one unit, every get_rag_response call of
\* RAGHandler returns normally with a non-null, non-empty answer.
C2_NonEmptyIndexAnswers ==
    (ResponseCall(h_result) /\ UnitTotal(h_state.knowledge_base) > 0)
        => (h_result.kind = "return" /\ ~h_result.answer_is_none /\ h_result.answer # <<>>)

\* C3: no two units of a list a ranker returns have the same answer.
C3_NoDuplicateAnswers ==
    \A r \in {s_result, h_result} :
        (RankerCall(r) /\ r.kind = "return")
            => \A i \in 1..Len(r.docs) : \A j \in 1..Len(r.docs) :
                   i # j => r.docs[i].answer # r.docs[j].answer

\* C4: for every top_k >= 0 a ranker returns a list of at most top_k units.
C4_AtMostTopK ==
    \A r \in {s_result, h_result} :
        RankerCall(r) => (r.kind = "return" /\ Len(r.docs) <= r.top_k)

\* the place of document n of the knowledge base in a best-first, stable order
\* of the similarities to the query
SimilarityTo(query, doc) == CosineSimilarity(Encode(query), Encode(doc.text))
PlaceOf(kb, query, n) ==
    1 + Cardinality({m \in 1..Len(kb) :
            \/ SimilarityTo(query, kb[m]) > SimilarityTo(query, kb[n])
            \/ SimilarityTo(query, kb[m]) = SimilarityTo(query, kb[n]) /\ m < n})

\* C5: a ranker returns a list ordered best-first, equal scores in the order in
\* which the knowledge base was iterated.
C5_BestFirstStable ==
    /\ RankerCall(h_result) => h_result.kind = "return"
    /\ RankerCall(s_result) =>
           /\ s_result.kind = "return"
           /\ \A n \in 1..Len(knowledge_base) :
                  PlaceOf(knowledge_base, s_result.query, n) <= Len(s_result.docs)
                      => s_result.docs[PlaceOf(knowledge_base, s_result.query, n)]
                             = knowledge_base[n]

\* C6: when the ranker has no unit to return, RAGHandler.get_rag_response returns
\* the clarifying prompt of the query's context -- school, else kindergarten,
\* else generic -- with an empty unit list; the prompt holds a question mark.
C6_ClarifyingPrompt ==
    (ResponseCall(h_result) /\ UnitTotal(h_state.knowledge_base) = 0)
        => /\ h_result.kind = "return"
           /\ ~h_result.answer_is_none
           /\ h_result.answer = ClarifyingPrompt(h_result.query)
           /\ Contains(h_result.answer, "?")
           /\ h_result.docs = <<>>

\* C7: for a query that mentions no age, the answer RAGHandler.get_rag_response
\* composes carries no age qualifier.
C7_NoAgeQualifier ==
    (/\ ResponseCall(h_result)
     /\ UnitTotal(h_state.knowledge_base) > 0
     /\ ~extract_age_info(h_result.query).has_age_info)
        => /\ h_result.kind = "return"
           /\ ~h_result.answer_is_none
           /\ \A i \in 1..Len(h_result.answer) : h_result.answer[i] \notin AgeQualifierOpenings

(***************************************************************************)
(* Claims about the scoring (SpecScore).                                   *)
(***************************************************************************)
\* the place of the unit of candidate n in a ranked list, 0 when it is not in it
PlaceIn(docs, doc) ==
    IF \E i \in 1..Len(docs) : docs[i] = doc
    THEN CHOOSE i \in 1..Len(docs) : docs[i] = doc /\ \A j \in 1..(i-1) : docs[j] # doc
    ELSE 0

\* two candidates that differ in nothing the score depends on but the age tags
EqualButAge(in) ==
    LET c1 == in.candidates[1]
        c2 == in.candidates[2]
    IN  /\ c1.base_similarity = c2.base_similarity
        /\ keyword_matches(in.query, c1.doc.text) = keyword_matches(in.query, c2.doc.text)
        /\ CharLen(c1.doc.answer) = CharLen(c2.doc.answer)
        /\ PriceFactor(c1.doc.text) = PriceFactor(c2.doc.text)
        /\ RequirementFactor(c1.doc.text) = RequirementFactor(c2.doc.text)
        /\ c1.jitter = 0 /\ c2.jitter = 0

\* C11: for a query of age {6,6} and two units tagged {5,7} and {10,12} that are
\* otherwise equal, jitter excluded, the ranker places the {5,7} unit above the
\* {10,12} unit, whatever the common base similarity.
C11_IntersectingAgeRanksFirst ==
    (/\ calc.op = "rank" /\ calc.done
     /\ calc.input.query_age_info = AgeRange(6, 6)
     /\ calc.input.top_k = 2
     /\ EqualButAge(calc.input)
     /\ calc.input.candidates[1].doc.answer # calc.input.candidates[2].doc.answer
     /\ \E n \in 1..2 :
            /\ calc.input.candidates[n].doc.age_info = AgeRange(5, 7)
            /\ calc.input.candidates[3 - n].doc.age_info = AgeRange(10, 12))
        => \E n \in 1..2 :
               /\ calc.input.candidates[n].doc.age_info = AgeRange(5, 7)
               /\ calc.output = <<calc.input.candidates[n].doc, calc.input.candidates[3 - n].doc>>

\* a unit whose text is the query and a unit that shares no keyword with it, equal
\* in age tags, answer length and domain words
ExactAndUnrelated(query, e, o) ==
    /\ e.text = query
    /\ keyword_matches(query, o.text) = 0
    /\ e.age_info = o.age_info
    /\ CharLen(e.answer) = CharLen(o.answer)
    /\ PriceFactor(e.text) = PriceFactor(o.text)
    /\ RequirementFactor(e.text) = RequirementFactor(o.text)

\* C12: the ranker returns a unit whose text is the query at or above a unit that
\* shares no keyword with the query, when age, answer length and domain words are
\* equal for both.
C12_ExactMatchRanksFirst ==
    RankerCall(h_result) =>
        \A e \in KbUnits(h_state.knowledge_base) : \A o \in KbUnits(h_state.knowledge_base) :
            ExactAndUnrelated(h_result.query, e, o) =>
                /\ h_result.kind = "return"
                /\ PlaceIn(h_result.docs, o) # 0 =>
                       /\ PlaceIn(h_result.docs, e) # 0
                       /\ PlaceIn(h_result.docs, e) < PlaceIn(h_result.docs, o)

(***************************************************************************)
(* Claims about extract_age_info (SpecAge).                                *)
(***************************************************************************)
\* a range form, with or without the leading 'ot', starts at word i of t
RangeFormAt(t, i) ==
    /\ i + 3 <= Len(t)
    /\ t[i] \in NumTok /\ t[i+1] \in {"-", "do"} /\ t[i+2] \in NumTok /\ t[i+3] = "let"

\* the range form at word i of t is preceded by 'ot'
OtPrefixed(t, i) == i > 1 /\ t[i-1] = "ot"

RangeForms(t) == {i \in 1..Len(t) : RangeFormAt(t, i)}
OtRangeForms(t) == {i \in RangeForms(t) : OtPrefixed(t, i)}

\* the least element of a non-empty set of positions
Least(S) == CHOOSE i \in S : \A j \in S : i <= j

RangeAt(t, i) == [min_age |-> IntOf(t[i]), max_age |-> IntOf(t[i+2]), has_age_info |-> TRUE]

\* C8 as stated: whenever the text contains a range form, the result is the
\* range {X, Y, true} of the first range form of the text.
C8_FirstRangeInText ==
    age.done =>
        LET t == Lower(age.text)
        IN  RangeForms(t) # {} => age.result = RangeAt(t, Least(RangeForms(t)))

\* C8 amended: whenever the text contains a range form, the result is a range
\* {X, Y, true}: that of the first 'ot'-prefixed range form if the text has one,
\* otherwise that of the first range form, whatever else the text contains.
C8_OtRangeThenRange ==
    age.done =>
        LET t == Lower(age.text)
        IN  RangeForms(t) # {} =>
                age.result = IF OtRangeForms(t) # {}
                             THEN RangeAt(t, Least(OtRangeForms(t)))
                             ELSE RangeAt(t, Least(RangeForms(t)))

\* C8 witness: a text with a bare age first, then an un-prefixed range, then a
\* different 'ot' range has been parsed to the 'ot' range.
C8_Witness ==
    /\ age.done
    /\ age.text = <<"5", "let", "5", "-", "0", "let", "ot", "0", "do", "5", "let">>
    /\ age.result = [min_age |-> 0, max_age |-> 5, has_age_info |-> TRUE]

OlderForms(t) == {i \in 1..Len(t) : i + 2 <= Len(t) /\ t[i] = "starshe" /\ t[i+1] \in NumTok /\ t[i+2] = "let"}
YoungerForms(t) == {i \in 1..Len(t) : i + 2 <= Len(t) /\ t[i] = "mladshe" /\ t[i+1] \in NumTok /\ t[i+2] = "let"}
BareForms(t) == {i \in 1..Len(t) : i + 1 <= Len(t) /\ t[i] \in NumTok /\ t[i+1] = "let"}

\* C9 as stated: when no range form matches, 'starshe X let' gives {X, null, true};
\* otherwise 'mladshe X let' gives {null, X, true}; otherwise a bare 'X let' gives
\* {X, X, true}; otherwise {null, null, false}, whatever other words occur.
C9_SingleForms ==
    age.done =>
        LET t == Lower(age.text)
        IN  RangeForms(t) = {} =>
                age.result =
                    IF OlderForms(t) # {}
                    THEN [min_age |-> IntOf(t[Least(OlderForms(t)) + 1]), max_age |-> None,
                          has_age_info |-> TRUE]
                    ELSE IF YoungerForms(t) # {}
                    THEN [min_age |-> None, max_age |-> IntOf(t[Least(YoungerForms(t)) + 1]),
                          has_age_info |-> TRUE]
                    ELSE IF BareForms(t) # {}
                    THEN [min_age |-> IntOf(t[Least(BareForms(t))]),
                          max_age |-> IntOf(t[Least(BareForms(t))]), has_age_info |-> TRUE]
                    ELSE NoAgeInfo

(***************************************************************************)
(* Claims about the flattener (SpecFlatten).                               *)
(***************************************************************************)
\* the question/answer mappings of a tree, as the key path to each, one entry per
\* unit the mapping stands for (one per question variant of a list question)
UnitCount(node) ==
    IF HasKey(node, <<"vopros">>) /\ HasKey(node, <<"otvet">>) THEN 1
    ELSE IF HasKey(node, <<"question">>) /\ HasKey(node, <<"answer">>)
    THEN IF Get(node, <<"question">>).kind = "list"
         THEN Len(Get(node, <<"question">>).items) ELSE 1
    ELSE 0

RECURSIVE UnitPaths(_, _)
RECURSIVE UnitPathsFrom(_, _, _)
UnitPathsFrom(node, path, n) ==
    IF n > Len(node.items) THEN <<>>
    ELSE UnitPaths(node.items[n].val,
                   IF node.kind = "dict" THEN Append(path, node.items[n].key) ELSE path)
         \o UnitPathsFrom(node, path, n + 1)

UnitPaths(node, path) ==
    IF node.kind = "dict"
    THEN [i \in 1..UnitCount(node) |-> path] \o UnitPathsFrom(node, path, 1)
    ELSE IF node.kind = "list" THEN UnitPathsFrom(node, path, 1)
    ELSE <<>>

\* " ".join(path)
RECURSIVE SpaceJoin(_)
SpaceJoin(path) ==
    IF path = <<>> THEN <<>>
    ELSE IF Len(path) = 1 THEN path[1]
    ELSE path[1] \o <<" ">> \o SpaceJoin(Tail(path))

\* a key that is not empty and neither begins nor ends with a blank
CleanKey(k) == k # <<>> /\ k[1] # " " /\ k[Len(k)] # " "

\* C10 as stated: one unit per question/answer mapping (one per variant of a list
\* question), each with the space-joined key path as its context.
C10_ContextIsJoinedPath ==
    flat.done =>
        LET paths == UnitPaths(flat.data, <<>>)
        IN  /\ Len(flat.documents) = Len(paths)
            /\ \A i \in 1..Len(paths) : flat.documents[i].context = SpaceJoin(paths[i])

\* C10 amended: one unit per question/answer mapping (one per variant of a list
\* question); the context of a unit is the space-joined key path whenever no key
\* on the path is empty or begins or ends with whitespace.
C10_ContextIsJoinedCleanPath ==
    flat.done =>
        LET paths == UnitPaths(flat.data, <<>>)
        IN  /\ Len(flat.documents) = Len(paths)
            /\ \A i \in 1..Len(paths) :
                   (\A n \in 1..Len(paths[i]) : CleanKey(paths[i][n]))
                       => flat.documents[i].context = SpaceJoin(paths[i])

\* C10 witness: a list at the root, two nested dicts and a list question with two
\* variants have been flattened to two units of context "a b".
C10_Witness ==
    /\ flat.done
    /\ flat.data.kind = "list"
    /\ Len(flat.documents) = 2
    /\ \A i \in 1..2 : flat.documents[i].context = <<"a", " ", "b">>
    /\ flat.documents[1].question # flat.documents[2].question

(***************************************************************************)
(* Claims about the index build (SpecHandler, SpecSingleton).              *)
(***************************************************************************)
\* the distinct unit texts of a RAGHandler knowledge base
HandlerTexts(kb) == {d.text : d \in KbUnits(kb)}

\* the distinct unit texts of the RAGSingleton knowledge base
SingletonTexts(documents) == {documents[n].text : n \in 1..Len(documents)}

\* C13: after an index build the cache holds exactly one entry per distinct unit
\* text of the whole knowledge base, and the encoder was invoked exactly once per
\* distinct text, whichever units, sources or categories the text occurs in.
C13_OneEntryPerDistinctText ==
    /\ h_state.constructed =>
           /\ Cardinality(h_state.embeddings_cache)
                  = Cardinality(HandlerTexts(h_state.knowledge_base))
           /\ Len(h_state.encoded) = Cardinality(HandlerTexts(h_state.knowledge_base))
    /\ (s_result.op = "initialize" /\ s_result.kind = "return") =>
           /\ DOMAIN embeddings_cache = SingletonTexts(knowledge_base)
           /\ Len(encoded) = Cardinality(SingletonTexts(knowledge_base))

\* C14: when the encoder fails on one unit's text during an index build, the
\* build still completes, every other text of the knowledge base gets its cache
\* entry, and later queries return without the unit of the failing text.
C14_EncoderFailureSkipsUnit ==
    refused # {} =>
        /\ s_result.op = "initialize" => s_result.kind = "return"
        /\ h_result.op = "__init__" => h_result.kind = "return"
        /\ \A t \in SingletonTexts(knowledge_base) \ refused : t \in DOMAIN embeddings_cache
        /\ (RankerCall(s_result) \/ ResponseCall(s_result)) =>
               /\ s_result.kind = "return"
               /\ \A n \in 1..Len(s_result.docs) : s_result.docs[n].text \notin refused

(***************************************************************************)
(* Claims about the knowledge base load (SpecLoad).                        *)
(***************************************************************************)
DocxLoads(f) == ~FileFails(f)
JsonLoads(f) == f.readable

\* C15: when loading a source fails, the load continues: the failing source
\* contributes no unit, and the units of every other source are loaded exactly as
\* they are from the directory without the failing source.
C15_FailingSourceSkipped ==
    calc.done =>
        /\ calc.op = "load_docx" =>
               calc.output = load_knowledge_base(SelectSeq(calc.input, DocxLoads))
        /\ calc.op = "load_json" =>
               calc.output = handler_load_knowledge_base(SelectSeq(calc.input, JsonLoads))

(***************************************************************************)
(* Claims about queries on the built index (SpecSingleton, SpecHandler).   *)
(***************************************************************************)
\* the unit has an embedding in the cache of the RAGSingleton
HasEmbedding(doc) == doc.text \in DOMAIN embeddings_cache

\* C16: a failure while scoring one candidate (a unit with no cached embedding)
\* does not abort the ranking: the call returns, and what it returns is the
\* ranking of the remaining candidates.
C16_ScoringFailureSkipsCandidate ==
    RankerCall(s_result) =>
        /\ s_result.kind = "return"
        /\ s_result.docs = get_relevant_documents(SelectSeq(knowledge_base, HasEmbedding),
                                                  embeddings_cache, s_result.query,
                                                  s_result.top_k).docs

\* the outcome a query call has on a given index, whatever was called before
QueryOutcome(documents, cache, r) ==
    IF ResponseCall(r) THEN singleton_get_rag_response(documents, cache, r.query)
    ELSE LET relevant == get_relevant_documents(documents, cache, r.query, r.top_k)
         IN  IF relevant.kind = "raise"
             THEN Raised("_get_relevant_documents", r.query, r.top_k, relevant.exc)
             ELSE ReturnedDocs("_get_relevant_documents", r.query, r.top_k, relevant.docs)

\* C17: queries are read-only on the index: every get_rag_response or
\* _get_relevant_documents call leaves the unit list and the embedding cache as
\* they were (so after any sequence of queries they are as the index build left
\* them), and its outcome is the one the index and the query alone determine.
C17_QueriesReadOnly ==
    [][/\ (RankerCall(s_result') \/ ResponseCall(s_result')) =>
              /\ knowledge_base' = knowledge_base
              /\ embeddings_cache' = embeddings_cache
              /\ s_result' = QueryOutcome(knowledge_base, embeddings_cache, s_result')
       /\ (RankerCall(h_result') \/ ResponseCall(h_result')) => h_state' = h_state]_vars

\* C17 witness: on an index of two units, both with their embeddings, a ranking
\* call has returned both units.
C17_Witness ==
    /\ RankerCall(s_result)
    /\ s_result.kind = "return"
    /\ Len(knowledge_base) = 2
    /\ Len(s_result.docs) = 2
    /\ \A n \in 1..2 : knowledge_base[n].text \in DOMAIN embeddings_cache

\* C18: the index is rebuilt wholesale on every load: after each initialize()
\* that returns, the cached texts are exactly the texts of the units of that
\* load; no cache entry of an earlier load survives.
C18_IndexRebuiltOnEveryLoad ==
    (s_result.op = "initialize" /\ s_result.kind = "return") =>
        /\ \A n \in 1..Len(knowledge_base) : HasEmbedding(knowledge_base[n])
        /\ \A t \in DOMAIN embeddings_cache : \E n \in 1..Len(knowledge_base) :
               knowledge_base[n].text = t

(***************************************************************************)
(* Claims about the composed answer (SpecHandler).                         *)
(***************************************************************************)
\* a unit holds a topic keyword of every context the query was classified in
PassesContextFilter(query, doc) ==
    /\ is_school(query) => AnyWordIn(SchoolFilterWords, Lower(doc.question \o doc.answer))
    /\ is_kindergarten(query) =>
           AnyWordIn(KindergartenFilterWords, Lower(doc.question \o doc.answer))

\* C19: when the index holds units for the ranker to return, get_rag_response
\* returns a non-empty unit list: units of the knowledge base, each at most once,
\* which all hold a topic keyword of every classified context of the query, or,
\* when no ranked unit does, the ranked list as it is.
C19_FilterFallsBackToRanked ==
    (ResponseCall(h_result) /\ UnitTotal(h_state.knowledge_base) > 0) =>
        /\ h_result.kind = "return"
        /\ h_result.docs # <<>>
        /\ \A n \in 1..Len(h_result.docs) :
               /\ h_result.docs[n] \in KbUnits(h_state.knowledge_base)
               /\ \A k \in 1..Len(h_result.docs) : h_result.docs[k] = h_result.docs[n] => k = n
        /\ \/ \A n \in 1..Len(h_result.docs) :
                  PassesContextFilter(h_result.query, h_result.docs[n])
           \/ \A n \in 1..Len(h_result.docs) :
                  ~PassesContextFilter(h_result.query, h_result.docs[n])

\* the place of a line among the section headers, 0 when it is no header
HeaderPlace(line) ==
    IF \E k \in 1..Len(SectionHeaders) : SectionHeaders[k] = line
    THEN CHOOSE k \in 1..Len(SectionHeaders) : SectionHeaders[k] = line
    ELSE 0

\* C20: the composed answer begins with the primary answer; its section headers
\* stand in the fixed order ages, prices, requirements, details, related topics,
\* clarifying questions, and every header is followed by an entry of its section.
C20_SectionsInFixedOrder ==
    (ResponseCall(h_result) /\ UnitTotal(h_state.knowledge_base) > 0) =>
        /\ h_result.kind = "return"
        /\ ~h_result.answer_is_none
        /\ h_result.answer # <<>>
        /\ HeaderPlace(h_result.answer[1]) = 0
        /\ \A i \in 1..Len(h_result.answer) :
               HeaderPlace(h_result.answer[i]) # 0 =>
                   /\ i < Len(h_result.answer)
                   /\ HeaderPlace(h_result.answer[i + 1]) = 0
                   /\ \A j \in 1..(i - 1) :
                          HeaderPlace(h_result.answer[j]) < HeaderPlace(h_result.answer[i])

(***************************************************************************)
(* Claims about the body of get_rag_response (SpecCompose).                *)
(***************************************************************************)
\* a line of the composed answer emits the answer text of a unit: bare, or behind
\* the unit's age qualifier
Emits(line, doc) ==
    \/ line = doc.answer
    \/ line = AgeQualifier(doc.age_info) \o doc.answer
    \/ line = AgeQualifier(doc.age_info) \o <<"<nl>">> \o doc.answer

\* C21: supplementary information is accumulated without duplication: no unit's
\* answer text is emitted more than once in the composed answer, neither twice
\* in one section nor in two different sections.
C21_NoAnswerEmittedTwice ==
    (calc.op = "compose" /\ calc.done) =>
        LET lines == calc.output.composed.full_answer
            docs == calc.output.composed.docs
        IN  \A n \in 1..Len(docs) :
                \A i, j \in 1..Len(lines) :
                    (Emits(lines[i], docs[n]) /\ Emits(lines[j], docs[n])) => i = j

\* the query names a grade: a number followed by 'klass'
GradeMentioned(query) ==
    \E i \in 1..(Len(query) - 1) : IsNum(query[i]) /\ Lower(query)[i + 1] = "klass"

\* C22: in a school-context query the clarifying question asking for the grade is
\* added if and only if the query did not mention a grade.
C22_GradeQuestionIffNoGrade ==
    (calc.op = "compose" /\ calc.done /\ calc.input.context.is_school
         /\ calc.input.relevant_docs # <<>>) =>
        ((\E i \in 1..Len(calc.output.composed.full_answer) :
              calc.output.composed.full_answer[i] = <<"V kakoi klass planiruete postupat?">>)
             <=> ~GradeMentioned(calc.input.query))

\* C24: the context classification is not a score input: the query that
\* get_rag_response hands to the ranker is exactly the user's query.
C24_RankerGetsUserQuery ==
    (calc.op = "compose" /\ calc.done) => calc.output.search_query = calc.input.query

(***************************************************************************)
(* Claims about the age info of the emitted units (SpecFlatten, SpecAge).  *)
(***************************************************************************)
\* the question's bound when it is non-null, otherwise the answer's
FirstNonNull(q, a) == IF q # None THEN q ELSE a

\* C23: for every emitted unit the merged age info takes, for min_age and for
\* max_age separately, the question's value when it is non-null and otherwise
\* the answer's value; has_age_info is true iff the question or the answer had
\* age info.
C23_MergedAgeInfo ==
    flat.done =>
        \A i \in 1..Len(flat.documents) :
            LET doc == flat.documents[i]
                q == extract_age_info(doc.question)
                a == extract_age_info(doc.answer)
            IN  /\ doc.age_info.min_age = FirstNonNull(q.min_age, a.min_age)
                /\ doc.age_info.max_age = FirstNonNull(q.max_age, a.max_age)
                /\ doc.age_info.has_age_info = (q.has_age_info \/ a.has_age_info)

(***************************************************************************)
(* Claims about the age block of the scoring (SpecScore).                  *)
(***************************************************************************)
\* an age info with both bounds, and one with a bound missing
FullRange(ai) == ai.has_age_info /\ ai.min_age # None /\ ai.max_age # None
LacksBound(ai) == ai.min_age = None \/ ai.max_age = None
MinOnly(ai) == ai.has_age_info /\ ai.min_age # None /\ ai.max_age = None

\* C25: the x1.3 closeness bonus for minimum ages is applied when the query and
\* the unit both have a min age and no max age and the min ages differ by at
\* most 2; min ages further apart get no adjustment, and neither does a pair in
\* which one side has a full range and the other side lacks a bound.
C25_MinAgeClosenessBonus ==
    (calc.op = "score" /\ calc.done /\ calc.output.before_age # 0) =>
        LET q == calc.input.query_age_info
            d == calc.input.candidate.doc.age_info
        IN  /\ (MinOnly(q) /\ MinOnly(d)) =>
                   calc.output.after_age * 10
                       = calc.output.before_age
                             * (IF Abs(q.min_age - d.min_age) <= 2 THEN 13 ELSE 10) * 10
            /\ ((FullRange(q) /\ LacksBound(d)) \/ (FullRange(d) /\ LacksBound(q))) =>
                   calc.output.after_age = calc.output.before_age * 10

(***************************************************************************)
(* Claims about the states of the RAGSingleton (SpecSingleton).            *)
(***************************************************************************)
\* C26: in every state in which get_rag_response can be called (before
\* initialize(), after an initialize() that returned, after one that raised and
\* was caught), every document of the knowledge base has its cache entry, and no
\* query fails on a missing cache key.
C26_EveryUnitHasEmbedding ==
    /\ \A n \in 1..Len(knowledge_base) : knowledge_base[n].text \in DOMAIN embeddings_cache
    /\ s_result.exc # "KeyError"

\* at least one bound of an age info is set
HasBound(ai) == ai.min_age # None \/ ai.max_age # None

\* C30: for the result of extract_age_info and for the age_info of every unit
\* the flattener emits, has_age_info is true if and only if at least one of
\* min_age and max_age is non-null.
C30_HasAgeInfoIffBound ==
    /\ age.done => (age.result.has_age_info <=> HasBound(age.result))
    /\ flat.done =>
           \A i \in 1..Len(flat.documents) :
               flat.documents[i].age_info.has_age_info <=> HasBound(flat.documents[i].age_info)

(***************************************************************************)
(* The answering core before anything of it is constructed: the state the  *)
(* specifications of the bot layer leave it in.                            *)
(***************************************************************************)
RagIdle ==
    /\ age = AgeIdle
    /\ flat = FlatIdle
    /\ knowledge_base = <<>>
    /\ embeddings_cache = <<>>
    /\ s_result = NoCall
    /\ h_state = HandlerIdle
    /\ h_result = NoCall
    /\ encoded = <<>>
    /\ calc = CalcIdle
    /\ refused = {}

(***************************************************************************)
(* SpecConversation: the two event threads of VkBot (vk_bot.py 65-110)     *)
(* call get_state of the one ConversationManager the MessageHandler owns.  *)
(* No lock guards the states dict, so a thread can be preempted between    *)
(* any two statements of get_state and _clean_expired_states; each action  *)
(* below is one such statement.  The dict is modelled as CPython keeps it: *)
(* an array of entries in insertion order, a deleted entry leaving a hole, *)
(* and an iterator that remembers its position, the size of the dict when  *)
(* it was created and the number of entries it still has to yield.         *)
(***************************************************************************)
Threads == {"school", "kindergarten"}

Users == {1, 2}

MaxCalls == 2

\* the number of entries the array of a small dict takes before it is rebuilt
DictUsable == 5

\* the hole a deleted entry leaves in the array
Hole == [live |-> FALSE, user_id |-> 0, obj |-> <<>>, expired |-> FALSE, old |-> FALSE]

\* ConversationState(user_id) under its key; obj tells one object from another,
\* expired is is_expired() of the object, old marks a state left by an earlier
\* conversation (only such a state can pass the timeout while a call runs)
Entry(user_id, obj, expired, old) ==
    [live |-> TRUE, user_id |-> user_id, obj |-> obj, expired |-> expired, old |-> old]

\* len(self.states)
Used(d) == Cardinality({i \in 1..Len(d) : d[i].live})

\* the place of a key in the array, 0 when the key is absent
IndexOf(d, user_id) ==
    IF \E i \in 1..Len(d) : d[i].live /\ d[i].user_id = user_id
    THEN CHOOSE i \in 1..Len(d) : d[i].live /\ d[i].user_id = user_id
    ELSE 0

IsLive(e) == e.live

\* self.states[user_id] = state: an existing key keeps its place, a new key
\* goes to the end of the array, which is rebuilt without holes when it is full
SetItem(d, user_id, state) ==
    IF IndexOf(d, user_id) # 0
    THEN [d EXCEPT ![IndexOf(d, user_id)] = state]
    ELSE IF Len(d) >= DictUsable
         THEN Append(SelectSeq(d, IsLive), state)
         ELSE Append(d, state)

\* how the last get_state call of a thread ended: not yet, with an exception,
\* or with the ConversationState object obj
StateOutcome(kind, exc, obj) == [kind |-> kind, exc |-> exc, obj |-> obj]

ThreadIdle ==
    [pc |-> "idle", user_id |-> 0, it |-> <<>>, expired_users |-> <<>>, k |-> 0,
     result |-> StateOutcome("none", "", <<>>), created |-> FALSE, calls |-> 0]

\* the states dict some earlier conversations left behind
InitialStates ==
    {<<>>}
    \cup {<<Entry(u, <<"init", u>>, x, TRUE)>> : u \in Users, x \in BOOLEAN}
    \cup {<<Entry(1, <<"init", 1>>, x, TRUE), Entry(2, <<"init", 2>>, y, TRUE)>> : x \in BOOLEAN, y \in BOOLEAN}

InitConversation ==
    /\ RagIdle
    /\ states \in InitialStates
    /\ threads = [t \in Threads |-> ThreadIdle]
    /\ df_events = <<>>
    /\ df_registrations = <<>>
    /\ conversation = <<>>
    /\ df_consultations = <<>>
    /\ reply = <<>>

\* the exception leaves get_state; _process_new_message catches it (vk_bot.py
\* 166-169) and the thread waits for its next event
Raise(t, exc) ==
    threads' = [threads EXCEPT ![t].pc = "idle", ![t].result = StateOutcome("raise", exc, <<>>)]

\* an event arrives in thread t and its handling reaches get_state(user_id);
\* _clean_expired_states starts: expired_users = [] and the iterator of
\* self.states.items() is created (lines 73, 209-211)
GetState(t, user_id) ==
    /\ threads[t].pc = "idle"
    /\ threads[t].calls < MaxCalls
    /\ threads' = [threads EXCEPT ![t] =
           [pc |-> "iterate", user_id |-> user_id,
            it |-> [pos |-> 1, used |-> Used(states), len |-> Used(states)],
            expired_users |-> <<>>, k |-> 1, result |-> StateOutcome("none", "", <<>>), created |-> FALSE,
            calls |-> threads[t].calls + 1]]
    /\ UNCHANGED <<rag_vars, states, df_events, df_registrations, conversation, df_consultations, reply>>

\* one round of the for loop (lines 211-213): the iterator refuses to go on
\* when the size of the dict differs from the size it was created with, or
\* when it has yielded as many entries as the dict had and still finds one
IterateStates(t) ==
    LET it == threads[t].it
        rest == {i \in it.pos..Len(states) : states[i].live}
        i == CHOOSE n \in rest : \A m \in rest : n <= m
    IN  /\ threads[t].pc = "iterate"
        /\ IF it.used # Used(states)
           THEN Raise(t, "RuntimeError")
           ELSE IF rest = {}
                THEN threads' = [threads EXCEPT ![t].pc = "delete"]
                ELSE IF it.len = 0
                     THEN Raise(t, "RuntimeError")
                     ELSE threads' = [threads EXCEPT
                              ![t].it = [pos |-> i + 1, used |-> it.used, len |-> it.len - 1],
                              ![t].expired_users =
                                  IF states[i].expired THEN Append(@, states[i].user_id) ELSE @]
        /\ UNCHANGED <<rag_vars, states, df_events, df_registrations, conversation, df_consultations, reply>>

\* one round of the second loop (lines 215-216): del self.states[user_id]
DeleteExpired(t) ==
    LET th == threads[t]
        user_id == th.expired_users[th.k]
    IN  /\ th.pc = "delete"
        /\ IF th.k > Len(th.expired_users)
           THEN /\ threads' = [threads EXCEPT ![t].pc = "check"]
                /\ UNCHANGED states
           ELSE IF IndexOf(states, user_id) = 0
                THEN /\ Raise(t, "KeyError")
                     /\ UNCHANGED states
                ELSE /\ states' = [states EXCEPT ![IndexOf(states, user_id)] = Hole]
                     /\ threads' = [threads EXCEPT ![t].k = th.k + 1]
        /\ UNCHANGED <<rag_vars, df_events, df_registrations, conversation, df_consultations, reply>>

\* if user_id not in self.states (line 75)
CheckState(t) ==
    /\ threads[t].pc = "check"
    /\ threads' = [threads EXCEPT ![t].pc =
           IF IndexOf(states, threads[t].user_id) = 0 THEN "insert" ELSE "return"]
    /\ UNCHANGED <<rag_vars, states, df_events, df_registrations, conversation, df_consultations, reply>>

\* self.states[user_id] = ConversationState(user_id) (line 76)
InsertState(t) ==
    LET th == threads[t]
    IN  /\ th.pc = "insert"
        /\ states' = SetItem(states, th.user_id, Entry(th.user_id, <<t, th.calls>>, FALSE, FALSE))
        /\ threads' = [threads EXCEPT ![t].pc = "return", ![t].created = TRUE]
        /\ UNCHANGED <<rag_vars, df_events, df_registrations, conversation, df_consultations, reply>>

\* return self.states[user_id] (line 78)
ReturnState(t) ==
    LET th == threads[t]
    IN  /\ th.pc = "return"
        /\ IF IndexOf(states, th.user_id) = 0
           THEN Raise(t, "KeyError")
           ELSE threads' = [threads EXCEPT
                    ![t].pc = "idle",
                    ![t].result = StateOutcome("return", "", states[IndexOf(states, th.user_id)].obj)]
        /\ UNCHANGED <<rag_vars, states, df_events, df_registrations, conversation, df_consultations, reply>>

\* the clock passes last_interaction + timeout of a state of an earlier
\* conversation: is_expired (lines 44-46) turns true
Expire(user_id) ==
    /\ IndexOf(states, user_id) # 0
    /\ states[IndexOf(states, user_id)].old
    /\ ~states[IndexOf(states, user_id)].expired
    /\ states' = [states EXCEPT ![IndexOf(states, user_id)].expired = TRUE]
    /\ UNCHANGED <<rag_vars, threads, df_events, df_registrations, conversation, df_consultations, reply>>

NextConversation ==
    \/ \E t \in Threads, user_id \in Users : GetState(t, user_id)
    \/ \E t \in Threads : IterateStates(t)
    \/ \E t \in Threads : DeleteExpired(t)
    \/ \E t \in Threads : CheckState(t)
    \/ \E t \in Threads : InsertState(t)
    \/ \E t \in Threads : ReturnState(t)
    \/ \E user_id \in Users : Expire(user_id)

SpecConversation == InitConversation /\ [][NextConversation]_vars

(***************************************************************************)
(* Claims about concurrent get_state calls (SpecConversation).             *)
(***************************************************************************)
\* the get_state call of thread t has returned
Returned(t) == threads[t].pc = "idle" /\ threads[t].result.kind = "return"

\* C27: in every interleaving of the two event threads each get_state call
\* terminates normally (no call ends with an exception because the other
\* thread inserted or deleted an entry of the states map) and returns the
\* state of its user: the object the map holds for that user when the call
\* returns, so that two calls that both found the user absent end up with one
\* shared state.
C27_GetStateThreadSafe ==
    /\ \A t \in Threads : threads[t].result.kind # "raise"
    /\ \A t1 \in Threads, t2 \in Threads :
           (/\ Returned(t1) /\ Returned(t2)
            /\ threads[t1].user_id = threads[t2].user_id
            /\ threads[t1].created /\ threads[t2].created
            /\ threads[t1].calls = 1 /\ threads[t2].calls = 1)
               => threads[t1].result.obj = threads[t2].result.obj

(***************************************************************************)
(* SpecEvents: the events and registrations sheets of the ExcelHandler     *)
(* (excel_handler.py).  The events were added by the /addevent command,    *)
(* which stores current_participants 0 (vk_bot.py 296-305); users then     *)
(* register and cancel in any order.                                       *)
(***************************************************************************)
MaxEvents == 2

MaxParticipants == 2

EventIds == 1..MaxEvents

\* add_event (lines 236-276) of an event for max_participants people
Event(max_participants) == [max_participants |-> max_participants, current_participants |-> 0]

\* a row of the registrations sheet (lines 313-319)
Registration(vk_id, event_id, status) == [user_vk_id |-> vk_id, event_id |-> event_id, status |-> status]

\* the index of the rows a boolean mask selects (lines 291-294, 351-354)
RowsOf(vk_id, event_id) ==
    {i \in 1..Len(df_registrations) :
        df_registrations[i].user_vk_id = vk_id /\ df_registrations[i].event_id = event_id}

\* existing_reg.index[0], reg.index[0]
FirstRow(rows) == CHOOSE i \in rows : \A j \in rows : i <= j

InitEvents ==
    /\ RagIdle
    /\ states = <<>>
    /\ threads = <<>>
    /\ \E n \in 1..MaxEvents : df_events \in [1..n -> {Event(m) : m \in 1..MaxParticipants}]
    /\ df_registrations = <<>>
    /\ conversation = <<>>
    /\ df_consultations = <<>>
    /\ reply = <<>>

\* ExcelHandler.register_for_event (lines 278-336)
RegisterForEvent(vk_id, event_id) ==
    LET existing_reg == RowsOf(vk_id, event_id)
    IN  /\ IF existing_reg # {}
           THEN /\ df_registrations' =
                       [df_registrations EXCEPT ![FirstRow(existing_reg)].status = "registered"]
                /\ UNCHANGED df_events
           ELSE IF event_id \notin DOMAIN df_events
                THEN UNCHANGED <<df_events, df_registrations>>
                ELSE IF df_events[event_id].current_participants >= df_events[event_id].max_participants
                     THEN UNCHANGED <<df_events, df_registrations>>
                     ELSE /\ df_registrations' =
                                 Append(df_registrations, Registration(vk_id, event_id, "registered"))
                          /\ df_events' = [df_events EXCEPT ![event_id].current_participants = @ + 1]
        /\ UNCHANGED <<rag_vars, states, threads, conversation, df_consultations, reply>>

\* ExcelHandler.cancel_registration (lines 338-376)
CancelRegistration(vk_id, event_id) ==
    LET reg == RowsOf(vk_id, event_id)
    IN  /\ IF reg = {}
           THEN UNCHANGED <<df_events, df_registrations>>
           ELSE /\ df_registrations' = [df_registrations EXCEPT ![FirstRow(reg)].status = "cancelled"]
                /\ IF event_id \in DOMAIN df_events /\ df_events[event_id].current_participants > 0
                   THEN df_events' = [df_events EXCEPT ![event_id].current_participants = @ - 1]
                   ELSE UNCHANGED df_events
        /\ UNCHANGED <<rag_vars, states, threads, conversation, df_consultations, reply>>

NextEvents ==
    \/ \E vk_id \in Users, event_id \in EventIds : RegisterForEvent(vk_id, event_id)
    \/ \E vk_id \in Users, event_id \in EventIds : CancelRegistration(vk_id, event_id)

SpecEvents == InitEvents /\ [][NextEvents]_vars

(***************************************************************************)
(* Claims about the registrations (SpecEvents).                            *)
(***************************************************************************)
\* the number of rows of an event with status 'registered'
RegisteredFor(event_id) ==
    Cardinality({i \in 1..Len(df_registrations) :
        df_registrations[i].event_id = event_id /\ df_registrations[i].status = "registered"})

\* C28: after any sequence of register_for_event and cancel_registration
\* calls, for every event the number of registrations with status
\* 'registered' does not exceed max_participants and equals the
\* current_participants counter.
C28_RegisteredMatchesCounter ==
    \A event_id \in DOMAIN df_events :
        /\ RegisteredFor(event_id) <= df_events[event_id].max_participants
        /\ RegisteredFor(event_id) = df_events[event_id].current_participants

(***************************************************************************)
(* SpecMessages: one user writes to the MessageHandler (message_handler.py)*)
(* message after message, within the conversation timeout.  The user is    *)
(* new: process_message adds the database row without a name (line 48), so *)
(* the branch of lines 108-121 for a stored name is not taken.  The        *)
(* messages drawn carry no payload and none of the keywords of lines       *)
(* 204-312 and 333-336; such a message that passes lines 66-156 reaches    *)
(* the intent, knowledge-base and AI steps (lines 314-384), whose answer   *)
(* is drawn as well.  Texts are sequences of lower-case words.             *)
(***************************************************************************)
MaxMessages == 4

\* the stages of the consultation flow (line 99)
ConsultationStages == {"consultation_name", "consultation_child_info", "consultation_wishes"}

\* the answers that count as "go on" after a repeated offer (line 68)
RepeatWords == {<<"da">>, <<"khochu">>, <<"konechno">>, <<"davai">>}

\* the answers that count as agreement to sign up (line 96)
AgreementWords ==
    RepeatWords \cup {<<"zapishite">>, <<"zapishus">>, <<"khochu", "zapisatsya">>, <<"zapisatsya">>,
                      <<"zapis">>, <<"da,", "davaite">>}

\* the words of a direct request to sign up (line 145) and the words by which
\* an earlier bot message counts as an offer (line 125)
RecordWords == {"zapis", "konsultatsiya", "konsultatsiyu", "zapisatsya", "ekskursiya", "ekskursiyu"}
OfferWords == {"ekskursiyu", "konsultatsiyu", "zapis", "zapisatsya"}

\* phrase in text, both sequences of words
HasPhrase(text, phrase) ==
    \E i \in 1..(Len(text) - Len(phrase) + 1) : SubSeq(text, i, i + Len(phrase) - 1) = phrase

\* the fixed texts of the bot, by the line that holds them
BotText(line) ==
    CASE line = 76 -> <<"otlichno", "dlya", "zapisi", "na", "ekskursiyu", "ili", "konsultatsiyu", "kak", "vas", "zovut">>
      [] line = 87 -> <<"davaite", "rasskazhu", "podrobnee", "o", "nashem", "podkhode">>
      [] line = 128 -> <<"otlichno", "dlya", "zapisi", "kak", "vas", "zovut">>
      [] line = 138 -> <<"khorosho", "dlya", "zapisi", "na", "konsultatsiyu", "ili", "ekskursiyu", "kak", "vas", "zovut">>
      [] line = 680 -> <<"pozhaluista", "vvedite", "vashe", "polnoe", "imya">>
      [] line = 695 -> <<"spasibo", "ukazhite", "vozrast", "i", "klass", "rebenka">>
      [] line = 733 -> <<"spasibo", "opishite", "vashi", "pozhelaniya">>
      [] line = 779 -> <<"vasha", "zayavka", "na", "konsultatsiyu", "prinyata">>

\* ConversationState.__init__ (conversation_manager.py 9-14)
ConversationState == [current_stage |-> "initial", data |-> <<>>, history |-> <<>>]

\* ConversationState.add_data (conversation_manager.py 21-24)
add_data(state, key, value) ==
    [state EXCEPT !.data = [k \in DOMAIN state.data \cup {key} |-> IF k = key THEN value ELSE state.data[k]]]

\* ConversationState.add_message (conversation_manager.py 32-42); the runs of
\* the model stay below the 20 messages the history keeps
add_message(state, role, text) ==
    [state EXCEPT !.history = Append(state.history, [role |-> role, text |-> text])]

\* what a call leaves behind: the conversation state, the consultations sheet,
\* the text sent back
Handled(state, consultations, text) == [state |-> state, consultations |-> consultations, text |-> text]

\* the recurring end of a branch of process_message: the stage is set, the
\* user's message and the response are added to the history
Respond(state, stage, consultations, message_text, response) ==
    Handled(add_message(add_message([state EXCEPT !.current_stage = stage], "user", message_text),
                        "bot", response),
            consultations, response)

\* MessageHandler._handle_conversation_stage (lines 665-785), the stages of the
\* consultation flow; add_consultation is excel_handler.py 434-465
handle_conversation_stage(state, consultations, message_text, current_stage) ==
    IF current_stage = "consultation_name"
    THEN IF CharLen(message_text) < 3
         THEN Handled(add_message(state, "bot", BotText(680)), consultations, BotText(680))
         ELSE Handled(add_message([add_data(state, "name", message_text) EXCEPT
                                       !.current_stage = "consultation_child_info"],
                                  "bot", BotText(695)),
                      consultations, BotText(695))
    ELSE IF current_stage = "consultation_child_info"
    THEN Handled(add_message([add_data(state, "child_info", message_text) EXCEPT
                                  !.current_stage = "consultation_wishes"],
                             "bot", BotText(733)),
                 consultations, BotText(733))
    ELSE LET filled == add_data(state, "wishes", message_text)
             name == IF "name" \in DOMAIN filled.data THEN filled.data["name"] ELSE <<"None">>
             child_info == IF "child_info" \in DOMAIN filled.data THEN filled.data["child_info"] ELSE <<"None">>
             response == <<"spasibo">> \o name \o BotText(779)
         IN  Handled(add_message([filled EXCEPT !.current_stage = "initial", !.data = <<>>],
                                 "bot", response),
                     Append(consultations,
                            [name |-> name, child_info |-> child_info, wishes |-> message_text,
                             status |-> "new"]),
                     response)

IsBot(msg) == msg.role = "bot"

\* MessageHandler.process_message (lines 34-384) for a message without payload
\* or topic keyword; answer is what the knowledge base or the AI comes up
\* with, <<>> when the AI call fails (lines 377-383)
process_message(state, consultations, message_text, answer) ==
    LET history == state.history
        last_messages == SubSeq(history, IF Len(history) > 5 THEN Len(history) - 4 ELSE 1, Len(history))
        bot_messages == SelectSeq(last_messages, IsBot)
        n == Len(bot_messages)
        repeated == /\ n >= 2
                    /\ message_text \in RepeatWords
                    /\ bot_messages[n].text = bot_messages[n - 1].text
        last_bot_message == bot_messages[n].text
    IN  IF repeated /\ (\/ HasPhrase(last_bot_message, <<"zapisatsya", "na", "ekskursiyu">>)
                        \/ HasPhrase(last_bot_message, <<"zapisatsya", "na", "konsultatsiyu">>))
        THEN Respond(state, "consultation_name", consultations, message_text, BotText(76))
        ELSE IF repeated /\ HasPhrase(last_bot_message, <<"uznat", "podrobnee">>)
                         /\ AnyWordIn({"programm", "obrazovateln"}, last_bot_message)
        THEN Respond(state, state.current_stage, consultations, message_text, BotText(87))
        ELSE IF message_text \in AgreementWords
        THEN IF state.current_stage \in ConsultationStages
             THEN handle_conversation_stage(state, consultations, message_text, state.current_stage)
             ELSE IF \E i \in 1..n : AnyWordIn(OfferWords, bot_messages[i].text)
                  THEN Respond(state, "consultation_name", consultations, message_text, BotText(128))
                  ELSE Respond(state, "consultation_name", consultations, message_text, BotText(138))
        ELSE IF AnyWordIn(RecordWords, message_text)
        THEN Respond(state, "consultation_name", consultations, message_text, BotText(128))
        ELSE IF answer = <<>>
        THEN Handled(state, consultations, <<"izvinite">>)
        ELSE Respond(state, state.current_stage, consultations, message_text, answer)

\* the messages a user sends: a bare yes of two letters, a longer yes, a
\* direct request, a name, the child's age
Messages == {<<"da">>, <<"khochu">>, <<"zapisatsya">>, <<"ivan", "petrov">>, <<"5", "let">>}

\* what the knowledge base or the AI answers: an informative text, one that
\* ends with an offer, nothing (the AI call failed)
Answers == {<<"u", "nas", "malenkie", "klassy">>, <<"khotite", "zapisatsya", "na", "ekskursiyu">>, <<>>}

InitMessages ==
    /\ RagIdle
    /\ states = <<>>
    /\ threads = <<>>
    /\ df_events = <<>>
    /\ df_registrations = <<>>
    /\ conversation = ConversationState
    /\ df_consultations = <<>>
    /\ reply = [n |-> 0, message_text |-> <<>>, text |-> <<>>]

\* VkBot._process_new_message hands the next message of the user to
\* process_message (vk_bot.py 150)
ProcessMessage(message_text, answer) ==
    LET done == process_message(conversation, df_consultations, message_text, answer)
    IN  /\ reply.n < MaxMessages
        /\ conversation' = done.state
        /\ df_consultations' = done.consultations
        /\ reply' = [n |-> reply.n + 1, message_text |-> message_text, text |-> done.text]
        /\ UNCHANGED <<rag_vars, states, threads, df_events, df_registrations>>

NextMessages == \E message_text \in Messages, answer \in Answers : ProcessMessage(message_text, answer)

SpecMessages == InitMessages /\ [][NextMessages]_vars

(***************************************************************************)
(* Claims about the consultation flow (SpecMessages).                      *)
(***************************************************************************)
\* the call that handles the user's next message has just been made
NextMessageHandled == reply'.n = reply.n + 1

\* data[key] of the conversation after the call, <<"None">> when absent
DataAfter(key) == IF key \in DOMAIN conversation'.data THEN conversation'.data[key] ELSE <<"None">>

\* C29: once the user is in stage consultation_name, the next message (any
\* text of at least 3 characters) is stored as the name and the stage becomes
\* consultation_child_info; the next message moves the stage to
\* consultation_wishes, and the one after it back to initial, saving exactly
\* one consultation record.
C29_ConsultationFlow ==
    [][NextMessageHandled =>
           /\ (conversation.current_stage = "consultation_name" /\ CharLen(reply'.message_text) >= 3) =>
                  /\ conversation'.current_stage = "consultation_child_info"
                  /\ DataAfter("name") = reply'.message_text
           /\ conversation.current_stage = "consultation_child_info" =>
                  conversation'.current_stage = "consultation_wishes"
           /\ conversation.current_stage = "consultation_wishes" =>
                  /\ conversation'.current_stage = "initial"
                  /\ Len(df_consultations') = Len(df_consultations) + 1]_vars

====
